---------------------------- MODULE Spec2Model ----------------------------
(***************************************************************************)
(* Notes API: the Redis read-through cache (backend/src/cache.js), the    *)
(* PostgreSQL store (backend/src/db.js, kept as src/unnamed/part_001) and *)
(* the HTTP handlers of backend/src/index.js that use them.               *)
(*                                                                         *)
(* Node runs one handler turn at a time: every action below is one turn   *)
(* (the code between two awaits) or one step of a backend (Redis or       *)
(* PostgreSQL executing a command and delivering its reply).  The Redis   *)
(* client has one connection: commands are executed in the order they     *)
(* were issued (redisQ).  The PostgreSQL pool has several connections: a  *)
(* query's execution and the delivery of its result are separate steps,   *)
(* so results may be delivered in another order than they were computed.  *)
(***************************************************************************)
EXTENDS Integers, Sequences, FiniteSets, TLC

(***************************************************************************)
(* Bounds of the model.                                                    *)
(***************************************************************************)
NumProcs    == 2   \* requests in flight at once
MaxStarted  == 3   \* requests started in one behaviour
MaxCalls    == 3   \* direct calls of the cache functions in one behaviour
MaxNotes    == 2   \* rows ever inserted (SERIAL ids 1..MaxNotes)
MaxTime     == 3   \* seconds of the clock in the cache-level specification

(***************************************************************************)
(* Program constants.                                                      *)
(***************************************************************************)
DefaultTtl   == 60    \* cache.js: set(key, value, ttl = 60), CACHE_TTL || 60
SingleTtl    == 300   \* index.js: cacheSingleNote
ProbeTtl     == 5     \* index.js: the readiness probe's set(testKey, 'ok', 5)

Procs  == 1..NumProcs
Titles == {"a", "b"}

(***************************************************************************)
(* JavaScript values, as tagged tuples.  A row of the notes table is      *)
(* <<"row", id, title, created_at>>: pg returns the TIMESTAMP column      *)
(* created_at as a Date object.  content and updated_at follow title and  *)
(* created_at and are left out.                                            *)
(***************************************************************************)
Undefined    == <<"undefined">>
Null         == <<"null">>
NaN          == <<"nan">>
Bool(b)      == <<"bool", b>>
Num(n)       == <<"num", n>>
Str(s)       == <<"str", s>>
DateV(n)     == <<"date", n>>
Arr(s)       == <<"arr", s>>
Row(i, t, c) == <<"row", i, t, c>>
ErrObj(m)    == <<"err", m>>          \* { error: m }
Msg(m)       == <<"msg", m>>              \* { message: m }
Deleted(r)   == <<"deleted", r>>      \* { message: 'Note deleted successfully', note: r }
Thrown       == <<"throw">>           \* a rejected promise / thrown error

Tag(v) == v[1]

\* JavaScript truthiness (if (value), if (cachedData), if (!note)).
Truthy(v) ==
  CASE Tag(v) = "undefined" -> FALSE
    [] Tag(v) = "null"      -> FALSE
    [] Tag(v) = "nan"       -> FALSE
    [] Tag(v) = "bool"      -> v[2]
    [] Tag(v) = "num"       -> v[2] # 0
    [] Tag(v) = "str"       -> v[2] # ""
    [] OTHER                -> TRUE

NumStr(n) ==
  CASE n = 0 -> "0" [] n = 1 -> "1" [] n = 2 -> "2" [] n = 3 -> "3"
    [] n = 4 -> "4" [] n = 5 -> "5" [] n = 6 -> "6" [] n = 7 -> "7"
    [] n = 8 -> "8" [] n = 9 -> "9"

\* Date.prototype.toJSON: the ISO string of the n-th instant.
Iso(n) == "2025-01-0" \o NumStr(n) \o "T00:00:00.000Z"

\* JSON.stringify(undefined) is undefined, not a string.
NoJson == "undefined"

RECURSIVE Stringify(_)
RECURSIVE StringifyElems(_)
\* JSON.stringify: NaN becomes null, a Date becomes its ISO string, an
\* undefined array element becomes null.
Stringify(v) ==
  CASE Tag(v) = "undefined" -> NoJson
    [] Tag(v) = "null"      -> "null"
    [] Tag(v) = "nan"       -> "null"
    [] Tag(v) = "bool"      -> IF v[2] THEN "true" ELSE "false"
    [] Tag(v) = "num"       -> NumStr(v[2])
    [] Tag(v) = "str"       -> "\"" \o v[2] \o "\""
    [] Tag(v) = "date"      -> "\"" \o Iso(v[2]) \o "\""
    [] Tag(v) = "arr"       -> "[" \o StringifyElems(v[2]) \o "]"
    [] Tag(v) = "row"       -> "{\"id\":" \o NumStr(v[2]) \o ",\"title\":\"" \o v[3]
                               \o "\",\"created_at\":" \o Stringify(v[4]) \o "}"
    [] Tag(v) = "err"       -> "{\"error\":\"" \o v[2] \o "\"}"
    [] Tag(v) = "msg"       -> "{\"message\":\"" \o v[2] \o "\"}"
    [] Tag(v) = "deleted"   -> "{\"message\":\"Note deleted successfully\",\"note\":"
                               \o Stringify(v[2]) \o "}"
StringifyElems(s) ==
  IF s = <<>> THEN ""
  ELSE (IF Tag(Head(s)) = "undefined" THEN "null" ELSE Stringify(Head(s)))
       \o (IF Tail(s) = <<>> THEN "" ELSE "," \o StringifyElems(Tail(s)))


(***************************************************************************)
(* The notes table.  notes[i] is the title of row i, or NoRow.            *)
(***************************************************************************)
NoRow   == "-"
RowIds  == 1..MaxNotes
Tables  == [RowIds -> Titles \cup {NoRow}]

RowOf(tbl, i) == Row(i, tbl[i], DateV(i))

RECURSIVE RowsFrom(_, _)
\* SELECT * FROM notes ORDER BY created_at DESC: the newest row first.
RowsFrom(tbl, i) ==
  IF i = 0 THEN <<>>
  ELSE (IF tbl[i] = NoRow THEN <<>> ELSE <<RowOf(tbl, i)>>) \o RowsFrom(tbl, i - 1)

AllRows(tbl) == RowsFrom(tbl, MaxNotes)

\* req.params.id is a string; PostgreSQL casts it to the integer column
\* ('01' is 1) and rejects what is no integer ('list').
ReqIds == {"1", "01", "list"}
IdNum(s) == CASE s = "1" -> 1 [] s = "01" -> 1 [] s = "2" -> 2 [] OTHER -> 0
ValidId(s) == IdNum(s) # 0

(***************************************************************************)
(* JSON.parse, on the texts JSON.stringify produces: the value of the     *)
(* JSON data model that has this text.                                     *)
(***************************************************************************)
JsonRow(i, t) == Row(i, t, Str(Iso(i)))

RECURSIVE JsonRowsFrom(_, _)
JsonRowsFrom(tbl, i) ==
  IF i = 0 THEN <<>>
  ELSE (IF tbl[i] = NoRow THEN <<>> ELSE <<JsonRow(i, tbl[i])>>) \o JsonRowsFrom(tbl, i - 1)

JsonStrings == {"", "ok", "a", "b"} \cup {Iso(i) : i \in RowIds}

JsonValues ==
  {Null, Bool(TRUE), Bool(FALSE), Num(0), Num(1)}
  \cup {Str(s) : s \in JsonStrings}
  \cup {JsonRow(i, t) : i \in RowIds, t \in Titles}
  \cup {Arr(JsonRowsFrom(tbl, MaxNotes)) : tbl \in Tables}

Parse(s) == CHOOSE v \in JsonValues : Stringify(v) = s

(***************************************************************************)
(* Cache keys (cache.js keyGenerators).                                    *)
(***************************************************************************)
NotesListKey     == "notes:list"
SingleNoteKey(i) == "notes:" \o i

(***************************************************************************)
(* State.                                                                  *)
(***************************************************************************)
VARIABLES
  now,            \* the clock, in seconds
  clientCreated,  \* cache.js: client (set by connectToRedis)
  isConnected,    \* cache.js: isConnected
  stats,          \* cache.js: stats
  redisData,      \* the Redis keyspace: key -> [val, exp, src]
  redisQ,         \* commands issued to Redis and not yet answered, oldest first
  notes,          \* the notes table
  nextId,         \* the next value of the SERIAL id
  dbConnected,    \* db.js: isConnected
  procs,          \* the requests (and direct callers of the cache) in flight
  boot,           \* index.js startServer and gracefulShutdown: where the process stands
  listTtl,        \* index.js: parseInt(process.env.CACHE_TTL) || 60
  started,        \* how many requests have been started
  readySeen,      \* history: a 'ready' event has occurred
  hist,           \* history: the responses delivered, in order (SpecSeq only)
  lastSet         \* history: per key, the last executed SETEX not yet deleted or flushed

vars == <<now, clientCreated, isConnected, stats, redisData, redisQ, notes,
          nextId, dbConnected, procs, boot, listTtl, started, readySeen, hist, lastSet>>

NilReply == "(nil)"
NoSet    == [v |-> Undefined, at |-> 0, ttl |-> 0, live |-> FALSE]

\* A Redis command in flight.  owner = 0: nobody awaits the reply.  arg is
\* the value set() was called with (val is its serialization), src the time
\* the value was read from the store.
Cmd(op, keys, val, ttl, owner, arg, src) ==
  [op |-> op, keys |-> keys, val |-> val, ttl |-> ttl, owner |-> owner,
   arg |-> arg, src |-> src]

\* No structured response (the stats and readiness handlers have one).
NoInfo == [type |-> "none"]

\* A request in flight: ms is Date.now() - startTime, the milliseconds since
\* its middleware or handler took startTime; probeAt is the value ms had
\* when the readiness handler came to its cache check.

IdleProc ==
  [kind |-> "idle", pc |-> "idle", id |-> "", title |-> "", key |-> "", ttl |-> 0,
   val |-> Undefined, dbres |-> Undefined, pending |-> 0, issued |-> {},
   status |-> 0, body |-> "", xcache |-> "", xrt |-> FALSE, handler |-> FALSE,
   ret |-> Undefined, fault |-> FALSE, readAt |-> 0, ms |-> 0, probeAt |-> 0,
   info |-> NoInfo]

\* Variant: the guard tests the client only.
CacheUpClientOnly == clientCreated

\* if (!isConnected || !client) return ...
CacheUp == isConnected /\ clientCreated

(***************************************************************************)
(* Redis, as the commands the client sends are documented to behave.      *)
(***************************************************************************)
Live(k) == k \in DOMAIN redisData

RedisGet(k) == IF Live(k) THEN redisData[k].val ELSE NilReply

\* SETEX wants a positive expiry; otherwise it answers with an error.
SetExAccepts(ttl) == ttl > 0

\* Variant: a set on a key that has an entry keeps that entry's expiry.
RedisSetExKeepExpiry(k, ttl, v, src) ==
  [x \in DOMAIN redisData \cup {k} |->
     IF x = k THEN [val |-> v,
                    exp |-> IF k \in DOMAIN redisData THEN redisData[k].exp ELSE now + ttl,
                    src |-> src]
     ELSE redisData[x]]

\* Variant: a set on a key that has an entry leaves that entry's value.
RedisSetExFirstWins(k, ttl, v, src) ==
  [x \in DOMAIN redisData \cup {k} |->
     IF x = k THEN [val |-> IF k \in DOMAIN redisData THEN redisData[k].val ELSE v,
                    exp |-> now + ttl, src |-> src]
     ELSE redisData[x]]

RedisSetEx(k, ttl, v, src) ==
  [x \in DOMAIN redisData \cup {k} |->
     IF x = k THEN [val |-> v, exp |-> now + ttl, src |-> src]
     ELSE redisData[x]]

RedisDel(ks) == [x \in DOMAIN redisData \ ks |-> redisData[x]]

RedisFlushAll == [x \in {} |-> [val |-> "", exp |-> 0, src |-> 0]]

\* Variant: a key is still there at the instant of its expiry.
UnexpiredInclusive(t) == {k \in DOMAIN redisData : redisData[k].exp >= t}

\* Keys whose expiry lies in the future at time t.
Unexpired(t) == {k \in DOMAIN redisData : redisData[k].exp > t}


\* KEYS pattern: the glob patterns the program uses end in one '*'.
GlobPrefix(pat) ==
  CASE pat = "*" -> "" [] pat = "notes:*" -> "notes:" [] OTHER -> pat
IsGlob(pat) == pat \in {"*", "notes:*"}
KeySuffixes ==
  {"notes:list", "user:1", "list", "1", "2", "01"}
  \cup {"notes:" \o i : i \in ReqIds} \cup {"health_check_" \o NumStr(t) : t \in 0..9}
Matches(pat, k) ==
  IF IsGlob(pat) THEN \E x \in KeySuffixes : k = GlobPrefix(pat) \o x ELSE k = pat
\* Variant: KEYS answers with every key, whatever the pattern.
RedisKeysAll(pat) == DOMAIN redisData

RedisKeys(pat) == {k \in DOMAIN redisData : Matches(pat, k)}

(***************************************************************************)
(* Initial state: the module has been loaded, startServer has been called *)
(* and db.connectWithRetry has issued its first query.  The table holds   *)
(* the row the schema script inserts.                                      *)
(***************************************************************************)
\* parseInt(process.env.CACHE_TTL) || 60, given what parseInt returned
\* (NaN when the variable is unset).
OrDefault(v) == IF Truthy(v) THEN v[2] ELSE DefaultTtl

MaxRetries == 10   \* connectWithRetry(maxRetries = 10), connectToRedis(maxRetries = 10)

\* boot.phase is where the process stands, boot.i the loop index of the
\* connect loop under way, boot.code the argument of process.exit once the
\* phase is "exited", boot.closed what gracefulShutdown has closed so far.

InitWith(ttl) ==
  /\ now = 0
  /\ clientCreated = FALSE
  /\ isConnected = FALSE
  /\ stats = [totalRequests |-> 0, cacheHits |-> 0, cacheMisses |-> 0,
              averageResponseTime |-> 0]
  /\ redisData = RedisFlushAll
  /\ redisQ = <<>>
  /\ notes = [i \in RowIds |-> IF i = 1 THEN "a" ELSE NoRow]
  /\ nextId = 2
  /\ dbConnected = FALSE
  /\ procs = [p \in Procs |-> IdleProc]
  /\ boot = [phase |-> "db", i |-> 0, code |-> 0, closed |-> {}]
  /\ listTtl = ttl
  /\ started = 0
  /\ readySeen = FALSE
  /\ hist = <<>>
  /\ lastSet = [k \in {} |-> NoSet]

\* CACHE_TTL is not set.
Init == InitWith(OrDefault(NaN))

cacheVars == <<redisData, redisQ, lastSet>>
dbVars    == <<notes, nextId>>
bootVars  == <<clientCreated, dbConnected, boot, listTtl>>

(***************************************************************************)
(* Startup: db.connectWithRetry, then cache.connectToRedis, then listen.  *)
(***************************************************************************)
\* pool.query('SELECT 1') resolves: isConnected = true, return; startServer
\* goes on to connectToRedis, which creates the client, registers the event
\* handlers and awaits the first client.connect().
DbConnectOk ==
  /\ boot.phase = "db"
  /\ dbConnected' = TRUE
  /\ clientCreated' = TRUE
  /\ boot' = [boot EXCEPT !.phase = "cache", !.i = 0]
  /\ UNCHANGED <<hist, now, isConnected, stats, cacheVars, dbVars, procs, started, readySeen,
                 listTtl>>

\* Variant: a store whose attempts all fail is passed over as the cache is,
\* and startServer goes on to connectToRedis.
DbConnectFailPassedOver ==
  /\ boot.phase = "db"
  /\ boot' = IF boot.i = MaxRetries - 1 THEN [boot EXCEPT !.phase = "cache", !.i = 0]
             ELSE [boot EXCEPT !.phase = "dbSleep"]
  /\ clientCreated' = (clientCreated \/ boot.i = MaxRetries - 1)
  /\ UNCHANGED <<hist, now, isConnected, stats, cacheVars, dbVars, procs, started, readySeen,
                 dbConnected, listTtl>>

\* pool.query rejects: the last attempt rethrows (startServer: process.exit(1)),
\* any other sleeps for the delay.
DbConnectFail ==
  /\ boot.phase = "db"
  /\ boot' = IF boot.i = MaxRetries - 1 THEN [boot EXCEPT !.phase = "exited", !.code = 1]
             ELSE [boot EXCEPT !.phase = "dbSleep"]
  /\ UNCHANGED <<hist, now, isConnected, stats, cacheVars, dbVars, procs, started, readySeen,
                 clientCreated, dbConnected, listTtl>>

DbRetry ==
  /\ boot.phase = "dbSleep"
  /\ boot' = [boot EXCEPT !.phase = "db", !.i = @ + 1]
  /\ UNCHANGED <<hist, now, isConnected, stats, cacheVars, dbVars, procs, started, readySeen,
                 clientCreated, dbConnected, listTtl>>

\* client.connect() resolves (the client has emitted 'ready'): return, and
\* startServer calls app.listen.
CacheConnectOk ==
  /\ boot.phase = "cache"
  /\ isConnected' = TRUE
  /\ readySeen' = TRUE
  /\ boot' = [boot EXCEPT !.phase = "listening", !.i = 0]
  /\ UNCHANGED <<hist, now, stats, cacheVars, dbVars, procs, started, clientCreated, dbConnected,
                 listTtl>>

\* client.connect() rejects: the last attempt returns (degraded mode), any
\* other sleeps for the delay.
CacheConnectFail ==
  /\ boot.phase = "cache"
  /\ boot' = IF boot.i = MaxRetries - 1 THEN [boot EXCEPT !.phase = "listening", !.i = 0]
             ELSE [boot EXCEPT !.phase = "cacheSleep"]
  /\ UNCHANGED <<hist, now, isConnected, stats, cacheVars, dbVars, procs, started, readySeen,
                 clientCreated, dbConnected, listTtl>>

\* Variant: the loop index stays where it is.
CacheRetrySameIndex ==
  /\ boot.phase = "cacheSleep"
  /\ boot' = [boot EXCEPT !.phase = "cache"]
  /\ UNCHANGED <<hist, now, isConnected, stats, cacheVars, dbVars, procs, started, readySeen,
                 clientCreated, dbConnected, listTtl>>

CacheRetry ==
  /\ boot.phase = "cacheSleep"
  /\ boot' = [boot EXCEPT !.phase = "cache", !.i = @ + 1]
  /\ UNCHANGED <<hist, now, isConnected, stats, cacheVars, dbVars, procs, started, readySeen,
                 clientCreated, dbConnected, listTtl>>

Listening == boot.phase = "listening"

(***************************************************************************)
(* The Redis client's events (cache.js, client.on).                        *)
(***************************************************************************)
OnReady ==
  /\ clientCreated
  /\ isConnected' = TRUE
  /\ readySeen' = TRUE
  /\ UNCHANGED <<hist, now, stats, cacheVars, dbVars, procs, started, bootVars>>

OnError ==
  /\ clientCreated
  /\ isConnected' = FALSE
  /\ UNCHANGED <<hist, now, stats, cacheVars, dbVars, procs, started, bootVars, readySeen>>

OnEnd ==
  /\ clientCreated
  /\ isConnected' = FALSE
  /\ UNCHANGED <<hist, now, stats, cacheVars, dbVars, procs, started, bootVars, readySeen>>

OnConnect ==
  /\ clientCreated
  /\ UNCHANGED vars


(***************************************************************************)
(* The cache functions (cache.js get, set, del, delPattern, flushAll),    *)
(* each in two parts: the call up to its await, and the continuation when *)
(* Redis answers.  ok = FALSE is a command that rejects (backend fault).  *)
(***************************************************************************)
HeadIs(p, op, pc) ==
  /\ redisQ # <<>>
  /\ Head(redisQ).owner = p
  /\ Head(redisQ).op = op
  /\ procs[p].pc = pc

\* A new request takes the lowest free slot.
FreeSlot(p) == procs[p].pc = "idle" /\ \A q \in 1..(p - 1) : procs[q].pc # "idle"

CanStart(p) == Listening /\ FreeSlot(p)

Returned(p, kind, k, r, f) ==
  [IdleProc EXCEPT !.kind = kind, !.pc = "done", !.key = k, !.ret = r, !.fault = f]

Awaiting(kind, k, v, ttl) ==
  [IdleProc EXCEPT !.kind = kind, !.pc = "await", !.key = k, !.val = v, !.ttl = ttl]

\* get, from const value = await client.get(key) on: [ret, hit, miss].
GetOutcome(reply, ok) ==
  IF ok /\ reply # NilReply /\ reply # ""
    THEN [ret |-> Parse(reply), hit |-> 1, miss |-> 0]
    ELSE [ret |-> Null, hit |-> 0, miss |-> 1]

\* Variant: get counts its hits only.
CountGetHitsOnly(o) ==
  [stats EXCEPT !.cacheHits = @ + o.hit]

\* Variant: a miss is counted for a hit too.
CountGetMissAlways(o) ==
  [stats EXCEPT !.cacheHits = @ + o.hit, !.cacheMisses = @ + 1]

CountGet(o) ==
  [stats EXCEPT !.cacheHits = @ + o.hit, !.cacheMisses = @ + o.miss]

\* Variant: set has no connection guard.
SetSendsAnyState(v) == Stringify(v) # NoJson

\* set, up to await client.setEx: whether a SETEX is sent.  The client
\* refuses an argument that is no string (JSON.stringify(undefined)).
SetSends(v) == CacheUp /\ Stringify(v) # NoJson

SetCmd(k, v, ttl, owner, src) == Cmd("SETEX", {k}, Stringify(v), ttl, owner, v, src)

\* The history of SETEX executions, for the properties.
NoteSet(k, v, ttl) ==
  [x \in DOMAIN lastSet \cup {k} |->
     IF x = k THEN [v |-> v, at |-> now, ttl |-> ttl, live |-> TRUE] ELSE lastSet[x]]
NoteDel(ks) ==
  [x \in DOMAIN lastSet |-> IF x \in ks THEN NoSet ELSE lastSet[x]]

\* Redis executing a SETEX (ok: the command is not rejected).
SetExEffect(c, ok) ==
  IF ok /\ SetExAccepts(c.ttl)
    THEN /\ redisData' = RedisSetEx(CHOOSE k \in c.keys : TRUE, c.ttl, c.val, c.src)
         /\ lastSet' = NoteSet(CHOOSE k \in c.keys : TRUE, c.arg, c.ttl)
    ELSE UNCHANGED <<redisData, lastSet>>

\* Variant: DEL leaves the entries in place.
DelEffectNone(c, ok) == UNCHANGED <<redisData, lastSet>>

DelEffect(c, ok) ==
  IF ok THEN /\ redisData' = RedisDel(c.keys)
             /\ lastSet' = NoteDel(c.keys)
        ELSE UNCHANGED <<redisData, lastSet>>

\* del: return result > 0.
DelResult(c, ok) == Bool(ok /\ c.keys \cap DOMAIN redisData # {})

CallGet(p, k) ==
  /\ CanStart(p)
  /\ started' = started + 1
  /\ IF CacheUp
       THEN /\ redisQ' = Append(redisQ, Cmd("GET", {k}, "", 0, p, Undefined, 0))
            /\ procs' = [procs EXCEPT ![p] = Awaiting("get", k, Undefined, 0)]
       ELSE /\ redisQ' = redisQ
            /\ procs' = [procs EXCEPT ![p] = Returned(p, "get", k, Null, FALSE)]
  /\ UNCHANGED <<hist, now, isConnected, stats, redisData, lastSet, dbVars, bootVars, readySeen>>

\* Variant: a get whose command faults clears the connection flag.
GetReplyMarkingDown(p, ok) ==
  /\ HeadIs(p, "GET", "await")
  /\ procs[p].kind = "get"
  /\ LET o == GetOutcome(RedisGet(procs[p].key), ok) IN
       /\ stats' = CountGet(o)
       /\ procs' = [procs EXCEPT ![p] = Returned(p, "get", procs[p].key, o.ret, ~ok)]
  /\ redisQ' = Tail(redisQ)
  /\ isConnected' = (isConnected /\ ok)
  /\ UNCHANGED <<hist, now, redisData, lastSet, dbVars, bootVars, started, readySeen>>

GetReply(p, ok) ==
  /\ HeadIs(p, "GET", "await")
  /\ procs[p].kind = "get"
  /\ LET o == GetOutcome(RedisGet(procs[p].key), ok) IN
       /\ stats' = CountGet(o)
       /\ procs' = [procs EXCEPT ![p] = Returned(p, "get", procs[p].key, o.ret, ~ok)]
  /\ redisQ' = Tail(redisQ)
  /\ UNCHANGED <<hist, now, isConnected, redisData, lastSet, dbVars, bootVars, started, readySeen>>

CallSet(p, k, v, ttl) ==
  /\ CanStart(p)
  /\ started' = started + 1
  /\ IF SetSends(v)
       THEN /\ redisQ' = Append(redisQ, SetCmd(k, v, ttl, p, now))
            /\ procs' = [procs EXCEPT ![p] = Awaiting("set", k, v, ttl)]
       ELSE /\ redisQ' = redisQ
            /\ procs' = [procs EXCEPT ![p] = Returned(p, "set", k, Bool(FALSE), FALSE)]
  /\ UNCHANGED <<hist, now, isConnected, stats, redisData, lastSet, dbVars, bootVars, readySeen>>

SetReply(p, ok) ==
  /\ HeadIs(p, "SETEX", "await")
  /\ procs[p].kind = "set"
  /\ SetExEffect(Head(redisQ), ok)
  /\ procs' = [procs EXCEPT ![p] =
       Returned(p, "set", procs[p].key, Bool(ok /\ SetExAccepts(Head(redisQ).ttl)), ~ok)]
  /\ redisQ' = Tail(redisQ)
  /\ UNCHANGED <<hist, now, isConnected, stats, dbVars, bootVars, started, readySeen>>

CallDel(p, k) ==
  /\ CanStart(p)
  /\ started' = started + 1
  /\ IF CacheUp
       THEN /\ redisQ' = Append(redisQ, Cmd("DEL", {k}, "", 0, p, Undefined, 0))
            /\ procs' = [procs EXCEPT ![p] = Awaiting("del", k, Undefined, 0)]
       ELSE /\ redisQ' = redisQ
            /\ procs' = [procs EXCEPT ![p] = Returned(p, "del", k, Bool(FALSE), FALSE)]
  /\ UNCHANGED <<hist, now, isConnected, stats, redisData, lastSet, dbVars, bootVars, readySeen>>

DelReply(p, ok) ==
  /\ HeadIs(p, "DEL", "await")
  /\ procs[p].kind = "del"
  /\ DelEffect(Head(redisQ), ok)
  /\ procs' = [procs EXCEPT ![p] =
       Returned(p, "del", procs[p].key, DelResult(Head(redisQ), ok), ~ok)]
  /\ redisQ' = Tail(redisQ)
  /\ UNCHANGED <<hist, now, isConnected, stats, dbVars, bootVars, started, readySeen>>

CallDelPattern(p, pat) ==
  /\ CanStart(p)
  /\ started' = started + 1
  /\ IF CacheUp
       THEN /\ redisQ' = Append(redisQ, Cmd("KEYS", {pat}, "", 0, p, Undefined, 0))
            /\ procs' = [procs EXCEPT ![p] = Awaiting("delPattern", pat, Undefined, 0)]
       ELSE /\ redisQ' = redisQ
            /\ procs' = [procs EXCEPT ![p] = Returned(p, "delPattern", pat, Num(0), FALSE)]
  /\ UNCHANGED <<hist, now, isConnected, stats, redisData, lastSet, dbVars, bootVars, readySeen>>

\* const keys = await client.keys(pattern): none, return 0; else client.del(keys).
DelPatternKeys(p, ok) ==
  /\ HeadIs(p, "KEYS", "await")
  /\ procs[p].kind = "delPattern"
  /\ LET keys == IF ok THEN RedisKeys(procs[p].key) ELSE {} IN
       IF keys = {}
         THEN /\ redisQ' = Tail(redisQ)
              /\ procs' = [procs EXCEPT ![p] =
                   Returned(p, "delPattern", procs[p].key, Num(0), ~ok)]
         ELSE /\ redisQ' = Append(Tail(redisQ), Cmd("DEL", keys, "", 0, p, Undefined, 0))
              /\ procs' = [procs EXCEPT ![p].pc = "await2"]
  /\ UNCHANGED <<hist, now, isConnected, stats, redisData, lastSet, dbVars, bootVars, started,
                 readySeen>>

DelPatternDel(p, ok) ==
  /\ HeadIs(p, "DEL", "await2")
  /\ procs[p].kind = "delPattern"
  /\ DelEffect(Head(redisQ), ok)
  /\ procs' = [procs EXCEPT ![p] =
       Returned(p, "delPattern", procs[p].key,
                Num(IF ok THEN Cardinality(Head(redisQ).keys \cap DOMAIN redisData) ELSE 0),
                ~ok)]
  /\ redisQ' = Tail(redisQ)
  /\ UNCHANGED <<hist, now, isConnected, stats, dbVars, bootVars, started, readySeen>>

CallFlushAll(p) ==
  /\ CanStart(p)
  /\ started' = started + 1
  /\ IF CacheUp
       THEN /\ redisQ' = Append(redisQ, Cmd("FLUSHALL", {}, "", 0, p, Undefined, 0))
            /\ procs' = [procs EXCEPT ![p] = Awaiting("flushAll", "", Undefined, 0)]
       ELSE /\ redisQ' = redisQ
            /\ procs' = [procs EXCEPT ![p] = Returned(p, "flushAll", "", Bool(FALSE), FALSE)]
  /\ UNCHANGED <<hist, now, isConnected, stats, redisData, lastSet, dbVars, bootVars, readySeen>>

FlushReply(p, ok) ==
  /\ HeadIs(p, "FLUSHALL", "await")
  /\ procs[p].kind = "flushAll"
  /\ IF ok THEN /\ redisData' = RedisFlushAll
                /\ lastSet' = NoteDel(DOMAIN lastSet)
           ELSE UNCHANGED <<redisData, lastSet>>
  /\ procs' = [procs EXCEPT ![p] = Returned(p, "flushAll", "", Bool(ok), ~ok)]
  /\ redisQ' = Tail(redisQ)
  /\ UNCHANGED <<hist, now, isConnected, stats, dbVars, bootVars, started, readySeen>>

\* The caller has its result (the client has its response).
Finish(p) ==
  /\ procs[p].pc = "done"
  /\ procs' = [procs EXCEPT ![p] = IdleProc]
  /\ UNCHANGED <<hist, now, isConnected, stats, cacheVars, dbVars, bootVars, started, readySeen>>

\* d seconds pass; Redis drops the keys whose expiry has come.
Advance(d) ==
  /\ now' = now + d
  /\ redisData' = [k \in Unexpired(now + d) |-> redisData[k]]
  /\ UNCHANGED <<hist, isConnected, stats, redisQ, lastSet, dbVars, bootVars, procs, started,
                 readySeen>>

Tick == now < MaxTime /\ Advance(1)

Startup ==
  \/ DbConnectOk \/ DbConnectFail \/ DbRetry
  \/ CacheConnectOk \/ CacheConnectFail \/ CacheRetry

Events == OnReady \/ OnError \/ OnEnd \/ OnConnect

(***************************************************************************)
(* SpecKV: callers of the cache functions, with time passing.             *)
(***************************************************************************)
KvKeys     == {NotesListKey, "user:1"}
KvValues   == {Str("a"), NaN, Undefined}
KvTtls     == {0, 2}
KvPatterns == {"notes:*"}

NextKV ==
  \/ Startup
  \/ Events
  \/ Tick
  \/ \E p \in Procs :
       \/ started < MaxCalls /\ \E k \in KvKeys : CallGet(p, k)
       \/ started < MaxCalls /\ \E k \in KvKeys, v \in KvValues, t \in KvTtls :
                                  CallSet(p, k, v, t)
       \/ started < MaxCalls /\ \E k \in KvKeys : CallDel(p, k)
       \/ started < MaxCalls /\ \E pat \in KvPatterns : CallDelPattern(p, pat)
       \/ started < MaxCalls /\ CallFlushAll(p)
       \/ \E ok \in BOOLEAN :
            \/ GetReply(p, ok) \/ SetReply(p, ok) \/ DelReply(p, ok)
            \/ DelPatternKeys(p, ok) \/ DelPatternDel(p, ok) \/ FlushReply(p, ok)
       \/ Finish(p)

SpecKV == Init /\ [][NextKV]_vars

(***************************************************************************)
(* SpecRace: callers of set with two values, of get and of delPattern, on *)
(* the same keys at the same time.                                         *)
(***************************************************************************)
NextRace ==
  \/ Startup
  \/ Events
  \/ Tick
  \/ \E p \in Procs :
       \/ started < MaxCalls /\ \E k \in KvKeys : CallGet(p, k)
       \/ started < MaxCalls /\ \E k \in KvKeys, v \in {Str("a"), Str("b")}, t \in KvTtls :
                                  CallSet(p, k, v, t)
       \/ started < MaxCalls /\ \E pat \in {"*", "notes:*"} : CallDelPattern(p, pat)
       \/ \E ok \in BOOLEAN : GetReply(p, ok) \/ SetReply(p, ok)
       \/ \E ok \in BOOLEAN : DelPatternKeys(p, ok) \/ DelPatternDel(p, ok)
       \/ Finish(p)

SpecRace == Init /\ [][NextRace]_vars


(***************************************************************************)
(* Properties of the cache functions (SpecKV).                             *)
(***************************************************************************)
\* By the history: key k has a set that was neither deleted nor flushed and
\* whose ttl seconds have not elapsed.
LiveSet(k) ==
  /\ k \in DOMAIN lastSet
  /\ lastSet[k].live
  /\ now < lastSet[k].at + lastSet[k].ttl

\* A step in which the get of p gets Redis's answer (no fault).
GetAnswered(p) ==
  /\ HeadIs(p, "GET", "await")
  /\ procs[p].kind = "get"
  /\ procs'[p].pc = "done"
  /\ ~procs'[p].fault

JsonRoundTrip(v) == Parse(Stringify(v))

\* C1 as stated: a get answered by the backend returns the value v of the
\* most recent successful set on its key while fewer than ttl seconds have
\* passed since that set (and no delete or flush came between), and absent
\* afterwards.
C1_GetReturnsValueSet ==
  [][\A p \in Procs :
       GetAnswered(p) =>
         procs'[p].ret = IF LiveSet(procs[p].key) THEN lastSet[procs[p].key].v ELSE Null]_vars

\* C1 amended: it returns the JSON round trip of v (v itself for plain JSON
\* data; null for NaN, the ISO string for a Date), with the same expiry
\* window, restarted by every set.
C1_GetReturnsRoundTrip ==
  [][\A p \in Procs :
       GetAnswered(p) =>
         procs'[p].ret = IF LiveSet(procs[p].key)
                           THEN JsonRoundTrip(lastSet[procs[p].key].v)
                           ELSE Null]_vars

\* A get returned "a" one second into the window of a set that was itself
\* made after time 0.
C1_Witness ==
  \E p \in Procs :
    /\ procs[p].kind = "get" /\ procs[p].pc = "done" /\ ~procs[p].fault
    /\ procs[p].ret = Str("a")
    /\ LiveSet(procs[p].key)
    /\ lastSet[procs[p].key].at >= 1
    /\ now > lastSet[procs[p].key].at

\* C2: a get on a key without a live entry (never set, expired, deleted or
\* flushed) returns absent; when a command was sent it counts exactly one
\* miss and no hit, and when the cache is down it counts nothing.
C2_AbsentWithoutLiveEntry ==
  [][\A p \in Procs :
       (/\ procs[p].pc \in {"idle", "await"}
        /\ procs'[p].pc = "done"
        /\ procs'[p].kind = "get"
        /\ ~LiveSet(procs'[p].key))
       => /\ procs'[p].ret = Null
          /\ IF procs[p].pc = "await"
               THEN stats' = [stats EXCEPT !.cacheMisses = @ + 1]
               ELSE stats' = stats]_vars

\* A get on a key whose entry has expired returned absent and counted a miss.
C2_Witness ==
  \E p \in Procs :
    /\ procs[p].kind = "get" /\ procs[p].pc = "done" /\ ~procs[p].fault
    /\ procs[p].key \in DOMAIN lastSet
    /\ lastSet[procs[p].key].live
    /\ ~LiveSet(procs[p].key)
    /\ procs[p].ret = Null
    /\ stats.cacheMisses = 1

\* C23: with sets of "a" and of "b" on a key in flight together, the entry
\* of the key is at every moment exactly the text of the value of the set
\* executed last, one of the two, and a get that has returned has returned
\* "a", "b" or absent.
C23_LastWriteWins ==
  /\ \A k \in DOMAIN redisData :
       /\ k \in DOMAIN lastSet
       /\ lastSet[k].live
       /\ lastSet[k].v \in {Str("a"), Str("b")}
       /\ redisData[k].val = Stringify(lastSet[k].v)
  /\ \A p \in Procs :
       (procs[p].kind = "get" /\ procs[p].pc = "done")
       => procs[p].ret \in {Null, Str("a"), Str("b")}

\* The set of "a" has completed, one second after the set of "b" on the
\* same key was called, which is still waiting: the entry is "a".
C23_Witness ==
  \E p, q \in Procs :
    /\ procs[p].kind = "set" /\ procs[p].pc = "done" /\ procs[p].ret = Bool(TRUE)
    /\ procs[q].kind = "set" /\ procs[q].pc = "await" /\ procs[q].key = procs[p].key
    /\ procs[q].val = Str("b")
    /\ Len(redisQ) = 1 /\ Head(redisQ).owner = q /\ Head(redisQ).src = 0
    /\ Live(procs[p].key)
    /\ redisData[procs[p].key].val = Stringify(Str("a"))
    /\ redisData[procs[p].key].exp = 1 + Head(redisQ).ttl

\* A step in which the delPattern of p returns.
DelPatternReturns(p) ==
  /\ procs'[p].kind = "delPattern"
  /\ procs[p].pc \in {"idle", "await", "await2"}
  /\ procs'[p].pc = "done"

\* What is common to C24 as stated and as amended: the entries the call
\* removes have keys that match, every other entry stays as it is, the call
\* returns the number of entries removed, and it returns 0 and removes
\* nothing when the cache is down or a command faults.
DelPatternFrame(p) ==
  LET pat     == procs'[p].key
      removed == DOMAIN redisData \ DOMAIN redisData' IN
    /\ \A k \in removed : Matches(pat, k)
    /\ \A k \in DOMAIN redisData' : k \in DOMAIN redisData /\ redisData'[k] = redisData[k]
    /\ procs'[p].ret = Num(Cardinality(removed))
    /\ (procs[p].pc = "idle" \/ procs'[p].fault) => removed = {}

\* C24 as stated: when deleteByPattern(p) returns, answered by the backend,
\* no entry with a key that matches p is left, no other entry was removed,
\* and the number of entries removed is returned (0 when none matched or
\* the backend is unavailable).
C24_RemovesEveryMatch ==
  [][\A p \in Procs :
       DelPatternReturns(p) =>
         /\ DelPatternFrame(p)
         /\ (procs[p].pc # "idle" /\ ~procs'[p].fault)
              => \A k \in DOMAIN redisData' : ~Matches(procs'[p].key, k)]_vars

\* C24 amended: the keys the call deletes are the keys of the entries that
\* matched p when the backend enumerated them; when it returns it has
\* removed those of them that were still there, no other entry, and returns
\* their number (0 when none matched or the backend is unavailable).
C24_RemovesEnumerated ==
  [][\A p \in Procs :
       /\ DelPatternReturns(p) =>
            /\ DelPatternFrame(p)
            /\ (procs[p].pc = "await2" /\ ~procs'[p].fault)
                 => DOMAIN redisData' = DOMAIN redisData \ Head(redisQ).keys
            /\ (procs[p].pc = "await" /\ ~procs'[p].fault)
                 => \A k \in DOMAIN redisData : ~Matches(procs[p].key, k)
       /\ (procs[p].kind = "delPattern" /\ procs[p].pc = "await" /\ procs'[p].pc = "await2")
            => /\ redisData' = redisData
               /\ redisQ'[Len(redisQ')].op = "DEL"
               /\ redisQ'[Len(redisQ')].keys =
                    {k \in DOMAIN redisData : Matches(procs[p].key, k)}]_vars

\* A delPattern("*") has returned 1, having removed the one entry that was
\* there when the keys were enumerated, and the entry of another key, set
\* by the third call, is there.
C24_Witness ==
  \E p, q \in Procs :
    /\ procs[p].kind = "delPattern" /\ procs[p].pc = "done" /\ ~procs[p].fault
    /\ procs[p].key = "*"
    /\ procs[p].ret = Num(1)
    /\ procs[q].kind = "set" /\ procs[q].pc = "done" /\ procs[q].ret = Bool(TRUE)
    /\ Live(procs[q].key)
    /\ started = 3
    /\ redisQ = <<>>

\* The startup attempts all failed and no 'ready' event has occurred.
Degraded == Listening /\ ~readySeen

DegradedResult(kind) ==
  CASE kind = "get" -> Null
    [] kind = "delPattern" -> Num(0)
    [] OTHER -> Bool(FALSE)

\* C10: in degraded mode every call of get, set, del, delPattern and
\* flushAll returns at once with absent / false / 0 / false and sends no
\* command to the backend; the connection flag is false.
C10_DegradedMode ==
  [][Degraded =>
       /\ ~isConnected
       /\ \A p \in Procs :
            (procs[p].pc = "idle" /\ procs'[p].pc # "idle")
            => /\ procs'[p].pc = "done"
               /\ procs'[p].ret = DegradedResult(procs'[p].kind)
               /\ redisQ' = redisQ /\ redisQ = <<>>
               /\ redisData' = redisData]_vars

\* In degraded mode a flushAll has returned false and another call has
\* returned too.
C10_Witness ==
  /\ Degraded
  /\ \E p, q \in Procs :
       /\ procs[p].kind = "flushAll" /\ procs[p].pc = "done" /\ procs[p].ret = Bool(FALSE)
       /\ procs[q].kind = "set" /\ procs[q].pc = "done" /\ procs[q].ret = Bool(FALSE)


(***************************************************************************)
(* The HTTP handlers of index.js behind the cache middleware of cache.js. *)
(***************************************************************************)
\* createCacheMiddleware(keyGenerator, ttl) as used by index.js.
MwKey(kind, id) == IF kind = "list" THEN NotesListKey ELSE SingleNoteKey(id)
\* Variant: both middlewares use the collection's TTL.
MwTtlShared(kind) == listTtl

MwTtl(kind)     == IF kind = "list" THEN listTtl ELSE SingleTtl

\* The response a handler sends: res.status(st).json(data).
Respond(q, st, data) ==
  [q EXCEPT !.pc = "done", !.status = st, !.body = Stringify(data)]

\* Variant: the hit branch labels the response MISS.
RespondHitAsMiss(q, data) ==
  [Respond(q, 200, data) EXCEPT !.xcache = "MISS", !.xrt = TRUE]

\* The middleware's hit branch.
RespondHit(q, data) ==
  [Respond(q, 200, data) EXCEPT !.xcache = "HIT", !.xrt = TRUE]

\* The middleware's miss branch: X-Cache: MISS, res.json patched, next():
\* the handler runs up to its await of the store.
EnterHandler(q) ==
  [q EXCEPT !.pc = "db", !.xcache = "MISS", !.handler = TRUE]

\* Variant: the middleware does not count.
CountRequestNever == stats

\* stats.totalRequests++ at the middleware's entry.
CountRequest == [stats EXCEPT !.totalRequests = @ + 1]

AlphaTenths == 1   \* updateAverageResponseTime: alpha = 0.1

\* stats.averageResponseTime is kept in units of 1/AvgScale ms, fine enough
\* for the average of MaxStarted samples to be exact.
AvgScale == 10 ^ MaxStarted

\* updateAverageResponseTime(responseTime): the sample itself while the
\* average === 0, else alpha * responseTime + (1 - alpha) * average.
UpdateAverageResponseTime(st, rt) ==
  [st EXCEPT !.averageResponseTime =
     IF @ = 0 THEN rt * AvgScale
     ELSE (AlphaTenths * rt * AvgScale + (10 - AlphaTenths) * @) \div 10]

\* cache middleware, up to const cachedData = await get(key).
MwEnter(p, kind, id) ==
  /\ CanStart(p)
  /\ started' = started + 1
  /\ stats' = CountRequest
  /\ LET q == [IdleProc EXCEPT !.kind = kind, !.id = id, !.key = MwKey(kind, id),
                               !.ttl = MwTtl(kind)] IN
       IF CacheUp
         THEN /\ redisQ' = Append(redisQ, Cmd("GET", {q.key}, "", 0, p, Undefined, 0))
              /\ procs' = [procs EXCEPT ![p] = [q EXCEPT !.pc = "get"]]
         ELSE /\ redisQ' = redisQ
              /\ procs' = [procs EXCEPT ![p] = EnterHandler(q)]
  /\ UNCHANGED <<hist, now, isConnected, redisData, lastSet, dbVars, bootVars, readySeen>>

\* Variant: a lookup that faults fails the request.
MwGetReplyFatal(p, ok) ==
  /\ HeadIs(p, "GET", "get")
  /\ LET o == GetOutcome(RedisGet(procs[p].key), ok) IN
       /\ stats' = IF ok /\ Truthy(o.ret)
                      THEN UpdateAverageResponseTime(CountGet(o), procs[p].ms)
                      ELSE CountGet(o)
       /\ procs' = [procs EXCEPT ![p] =
            IF ~ok THEN [Respond(procs[p], 500, ErrObj("Cache error")) EXCEPT !.fault = TRUE]
            ELSE IF Truthy(o.ret) THEN RespondHit(procs[p], o.ret)
            ELSE EnterHandler(procs[p])]
  /\ redisQ' = Tail(redisQ)
  /\ UNCHANGED <<hist, now, isConnected, redisData, lastSet, dbVars, bootVars, started, readySeen>>

\* get's continuation, then the middleware's: if (cachedData) answer from
\* the cache, else go on to the handler.
MwGetReply(p, ok) ==
  /\ HeadIs(p, "GET", "get")
  /\ LET o == GetOutcome(RedisGet(procs[p].key), ok) IN
       /\ stats' = IF Truthy(o.ret)
                      THEN UpdateAverageResponseTime(CountGet(o), procs[p].ms)
                      ELSE CountGet(o)
       /\ procs' = [procs EXCEPT ![p] =
            IF Truthy(o.ret) THEN RespondHit(procs[p], o.ret)
            ELSE [EnterHandler(procs[p]) EXCEPT !.fault = ~ok]]
  /\ redisQ' = Tail(redisQ)
  /\ UNCHANGED <<hist, now, isConnected, redisData, lastSet, dbVars, bootVars, started, readySeen>>

\* db.getAllNotes / db.getNoteById executed by PostgreSQL (ok: no store error).
ReadQuery(kind, id, ok) ==
  IF kind = "list"
    THEN (IF ok THEN Arr(AllRows(notes)) ELSE Thrown)
    ELSE (IF ok /\ ValidId(id)
            THEN (IF notes[IdNum(id)] # NoRow THEN RowOf(notes, IdNum(id)) ELSE Undefined)
            ELSE Thrown)

\* Variant: a failing query marks the store as disconnected.
ReadDbExecMarkingDown(p, ok) ==
  /\ procs[p].pc = "db"
  /\ procs[p].kind \in {"list", "item"}
  /\ procs' = [procs EXCEPT ![p].pc = "dbDone",
                            ![p].dbres = ReadQuery(procs[p].kind, procs[p].id, ok),
                            ![p].readAt = now]
  /\ dbConnected' = (dbConnected /\ ok)
  /\ UNCHANGED <<hist, now, isConnected, stats, cacheVars, dbVars, clientCreated, boot,
                 listTtl, started, readySeen>>

ReadDbExec(p, ok) ==
  /\ procs[p].pc = "db"
  /\ procs[p].kind \in {"list", "item"}
  /\ procs' = [procs EXCEPT ![p].pc = "dbDone",
                            ![p].dbres = ReadQuery(procs[p].kind, procs[p].id, ok),
                            ![p].readAt = now]
  /\ UNCHANGED <<hist, now, isConnected, stats, cacheVars, dbVars, bootVars, started, readySeen>>

\* What the read handlers answer: [status, data].
ReadAnswer(kind, res) ==
  IF res = Thrown
    THEN [status |-> 500,
          data |-> ErrObj(IF kind = "list" THEN "Failed to fetch notes"
                          ELSE "Failed to fetch note")]
  ELSE IF kind = "item" /\ ~Truthy(res)
    THEN [status |-> 404, data |-> ErrObj("Note not found")]
  ELSE [status |-> 200, data |-> res]

\* Variant: the patched res.json caches whatever the status.
CachesAnyResponse(st) == TRUE

\* The patched res.json: if (res.statusCode === 200) set(key, data, ttl).
CachesResponse(st) == st = 200

\* Variant: the patched res.json awaits set() before it answers.
ReadResumeAwaitingWrite(p) ==
  /\ procs[p].pc = "dbDone"
  /\ procs[p].kind \in {"list", "item"}
  /\ LET q == procs[p]
         a == ReadAnswer(q.kind, q.dbres)
         w == CachesResponse(a.status) /\ SetSends(a.data) IN
       /\ redisQ' = IF w THEN Append(redisQ, SetCmd(q.key, a.data, q.ttl, 0, q.readAt))
                     ELSE redisQ
       /\ procs' = [procs EXCEPT ![p] =
            IF w THEN [q EXCEPT !.pc = "awaitSet"]
            ELSE [Respond(q, a.status, a.data) EXCEPT !.xrt = TRUE]]
       /\ stats' = IF w THEN stats ELSE UpdateAverageResponseTime(stats, q.ms)
  /\ UNCHANGED <<hist, now, isConnected, redisData, lastSet, dbVars, bootVars, started,
                 readySeen>>

\* The handler's continuation after the store's answer; res.json is the
\* middleware's, which starts set() without awaiting it and feeds the
\* response time into the average.
ReadResume(p) ==
  /\ procs[p].pc = "dbDone"
  /\ procs[p].kind \in {"list", "item"}
  /\ LET q == procs[p]
         a == ReadAnswer(q.kind, q.dbres) IN
       /\ redisQ' = IF CachesResponse(a.status) /\ SetSends(a.data)
                      THEN Append(redisQ, SetCmd(q.key, a.data, q.ttl, 0, q.readAt))
                      ELSE redisQ
       /\ procs' = [procs EXCEPT ![p] = [Respond(q, a.status, a.data) EXCEPT !.xrt = TRUE]]
       /\ stats' = UpdateAverageResponseTime(stats, q.ms)
  /\ UNCHANGED <<hist, now, isConnected, redisData, lastSet, dbVars, bootVars, started,
                 readySeen>>

\* Redis answers a SETEX nobody awaits (the middleware's).
DetachedSetReply(ok) ==
  /\ redisQ # <<>>
  /\ Head(redisQ).owner = 0
  /\ Head(redisQ).op = "SETEX"
  /\ SetExEffect(Head(redisQ), ok)
  /\ redisQ' = Tail(redisQ)
  /\ UNCHANGED <<hist, now, isConnected, stats, dbVars, bootVars, procs, started, readySeen>>

\* validateNote: the title must have 1 to 200 characters.
ValidTitle(t) == t # ""

\* Creates whose INSERT has not been executed yet.
PendingCreates == Cardinality({q \in Procs : procs[q].kind = "create" /\ procs[q].pc = "db"})

\* POST /api/notes, PUT /api/notes/:id, DELETE /api/notes/:id up to the
\* await of the store.
WriteStart(p, kind, id, title) ==
  /\ CanStart(p)
  /\ kind = "create" => id = "" /\ nextId + PendingCreates <= MaxNotes
  /\ kind # "create" => id # ""
  /\ kind = "delete" => title = ""
  /\ started' = started + 1
  /\ LET q == [IdleProc EXCEPT !.kind = kind, !.id = id, !.title = title] IN
       procs' = [procs EXCEPT ![p] =
         IF kind # "delete" /\ ~ValidTitle(title)
           THEN Respond(q, 400, ErrObj("Validation failed"))
           ELSE [q EXCEPT !.pc = "db"]]
  /\ UNCHANGED <<hist, now, isConnected, stats, cacheVars, dbVars, bootVars, readySeen>>

\* db.createNote / db.updateNote / db.deleteNote executed by PostgreSQL:
\* RETURNING * gives the affected row, rows[0] is undefined when none is.
WriteDbExec(p, ok) ==
  /\ procs[p].pc = "db"
  /\ procs[p].kind \in {"create", "update", "delete"}
  /\ LET q == procs[p]
         i == IdNum(q.id) IN
       IF q.kind = "create" /\ ok
         THEN /\ notes' = [notes EXCEPT ![nextId] = q.title]
              /\ nextId' = nextId + 1
              /\ procs' = [procs EXCEPT ![p].pc = "dbDone",
                                        ![p].dbres = Row(nextId, q.title, DateV(nextId))]
       ELSE IF q.kind # "create" /\ ok /\ ValidId(q.id) /\ notes[i] # NoRow
         THEN /\ notes' = [notes EXCEPT ![i] = IF q.kind = "update" THEN q.title ELSE NoRow]
              /\ nextId' = nextId
              /\ procs' = [procs EXCEPT ![p].pc = "dbDone",
                                        ![p].dbres = IF q.kind = "update"
                                                       THEN Row(i, q.title, DateV(i))
                                                       ELSE RowOf(notes, i)]
       ELSE /\ UNCHANGED dbVars
            /\ procs' = [procs EXCEPT ![p].pc = "dbDone",
                                      ![p].dbres = IF ok /\ ValidId(q.id) THEN Undefined
                                                   ELSE Thrown]
  /\ UNCHANGED <<hist, now, isConnected, stats, cacheVars, bootVars, started, readySeen>>

\* Variant: only the list key is invalidated.
InvalidationKeysListOnly(kind, id) == <<NotesListKey>>

\* invalidateNotesCache(noteId): the list key always, the note's key
\* if (noteId).  create passes no id, update and delete req.params.id.
InvalidationKeys(kind, id) ==
  <<NotesListKey>> \o (IF kind # "create" /\ id # "" THEN <<SingleNoteKey(id)>> ELSE <<>>)

DelCmds(keys, p) ==
  [n \in 1..Len(keys) |-> Cmd("DEL", {keys[n]}, "", 0, p, Undefined, 0)]

\* The write's success response.
WriteSuccess(q) ==
  CASE q.kind = "create" -> Respond(q, 201, q.dbres)
    [] q.kind = "update" -> Respond(q, 200, q.dbres)
    [] q.kind = "delete" -> Respond(q, 200, Deleted(q.dbres))

WriteFailure(kind) ==
  CASE kind = "create" -> "Failed to create note"
    [] kind = "update" -> "Failed to update note"
    [] kind = "delete" -> "Failed to delete note"

\* Variant: no 404 test before the invalidation.
AffectedAlways(kind, res) == TRUE

\* if (!note) return res.status(404)... in PUT and DELETE; POST has no
\* such test.
Affected(kind, res) == kind = "create" \/ Truthy(res)

\* Variant: the invalidation is started and not awaited.
RespondBeforeInvalidation(q, keys) ==
  [WriteSuccess(q) EXCEPT !.pending = Len(keys),
                          !.issued = {keys[n] : n \in 1..Len(keys)}]

\* await cache.invalidateNotesCache(...): the handler goes on when every
\* del() has returned.
AwaitInvalidation(q, keys) ==
  [q EXCEPT !.pc = "inval", !.pending = Len(keys),
            !.issued = {keys[n] : n \in 1..Len(keys)}]

\* The write handler's continuation after the store's answer: 500 on an
\* error, 404 when no row was affected, else await invalidateNotesCache,
\* whose del() calls each send a DEL when the cache is up.
WriteResume(p) ==
  /\ procs[p].pc = "dbDone"
  /\ procs[p].kind \in {"create", "update", "delete"}
  /\ LET q    == procs[p]
         keys == InvalidationKeys(q.kind, q.id) IN
       IF q.dbres = Thrown
         THEN /\ procs' = [procs EXCEPT ![p] = Respond(q, 500, ErrObj(WriteFailure(q.kind)))]
              /\ redisQ' = redisQ
       ELSE IF ~Affected(q.kind, q.dbres)
         THEN /\ procs' = [procs EXCEPT ![p] = Respond(q, 404, ErrObj("Note not found"))]
              /\ redisQ' = redisQ
       ELSE IF CacheUp
         THEN /\ redisQ' = redisQ \o DelCmds(keys, p)
              /\ procs' = [procs EXCEPT ![p] = AwaitInvalidation(q, keys)]
       ELSE /\ redisQ' = redisQ
            /\ procs' = [procs EXCEPT ![p] = WriteSuccess(q)]
  /\ UNCHANGED <<hist, now, isConnected, stats, redisData, lastSet, dbVars, bootVars, started,
                 readySeen>>

\* Variant: a DEL that faults makes invalidateNotesCache throw.
InvalDelReplyThrowing(p, ok) ==
  /\ redisQ # <<>>
  /\ Head(redisQ).owner = p
  /\ Head(redisQ).op = "DEL"
  /\ procs[p].kind \in {"create", "update", "delete"}
  /\ procs[p].pending > 0
  /\ DelEffect(Head(redisQ), ok)
  /\ redisQ' = Tail(redisQ)
  /\ procs' = [procs EXCEPT ![p] =
       IF procs[p].pc = "inval" /\ ~ok
         THEN [Respond(procs[p], 500, ErrObj(WriteFailure(procs[p].kind)))
                 EXCEPT !.pending = @ - 1]
       ELSE IF procs[p].pc = "inval" /\ procs[p].pending = 1
         THEN [WriteSuccess(procs[p]) EXCEPT !.pending = 0]
         ELSE [procs[p] EXCEPT !.pending = @ - 1]]
  /\ UNCHANGED <<hist, now, isConnected, stats, dbVars, bootVars, started, readySeen>>

\* del's continuation inside Promise.all; the last one lets the handler
\* respond.
InvalDelReply(p, ok) ==
  /\ redisQ # <<>>
  /\ Head(redisQ).owner = p
  /\ Head(redisQ).op = "DEL"
  /\ procs[p].kind \in {"create", "update", "delete"}
  /\ procs[p].pending > 0
  /\ DelEffect(Head(redisQ), ok)
  /\ redisQ' = Tail(redisQ)
  /\ procs' = [procs EXCEPT ![p] =
       IF procs[p].pc = "inval" /\ procs[p].pending = 1
         THEN [WriteSuccess(procs[p]) EXCEPT !.pending = 0, !.fault = @ \/ ~ok]
         ELSE [procs[p] EXCEPT !.pending = @ - 1, !.fault = @ \/ ~ok]]
  /\ UNCHANGED <<hist, now, isConnected, stats, dbVars, bootVars, started, readySeen>>

WriteTitles == Titles \cup {""}

Requests(p) ==
  \/ MwEnter(p, "list", "")
  \/ \E id \in ReqIds : MwEnter(p, "item", id)
  \/ \E t \in WriteTitles : WriteStart(p, "create", "", t)
  \/ \E id \in ReqIds, t \in WriteTitles : WriteStart(p, "update", id, t)
  \/ \E id \in ReqIds : WriteStart(p, "delete", id, "")

Steps(p, ok) ==
  \/ MwGetReply(p, ok)
  \/ ReadDbExec(p, ok)
  \/ WriteDbExec(p, ok)
  \/ InvalDelReply(p, ok)

Next ==
  \/ Startup
  \/ Events
  \/ \E p \in Procs :
       \/ started < MaxStarted /\ Requests(p)
       \/ \E ok \in BOOLEAN : Steps(p, ok)
       \/ ReadResume(p)
       \/ WriteResume(p)
       \/ Finish(p)
  \/ \E ok \in BOOLEAN : DetachedSetReply(ok)

Spec == Init /\ [][Next]_vars


(***************************************************************************)
(* Properties of the middleware and of the write handlers (Spec).         *)
(***************************************************************************)
IsRead(q)  == q.kind \in {"list", "item"}
IsWrite(q) == q.kind \in {"create", "update", "delete"}

\* The commands a step adds to the queue.
Appended ==
  IF Len(redisQ') > Len(redisQ)
    THEN {redisQ'[n] : n \in (Len(redisQ) + 1)..Len(redisQ')}
    ELSE {}

\* C3: when the middleware's lookup counts a hit, the request is answered
\* in that step with the stored text as its body, X-Cache: HIT and
\* X-Response-Time, and the handler (so the store) is not invoked.
C3_HitShortCircuits ==
  [][\A p \in Procs :
       (HeadIs(p, "GET", "get") /\ stats'.cacheHits = stats.cacheHits + 1)
       => /\ procs'[p].pc = "done"
          /\ procs'[p].status = 200
          /\ procs'[p].body = redisData[procs[p].key].val
          /\ procs'[p].xcache = "HIT"
          /\ procs'[p].xrt
          /\ ~procs'[p].handler
          /\ procs'[p].dbres = Undefined
          /\ UNCHANGED <<notes, nextId, redisData>>]_vars

\* A single-note read was answered from the cache.
C3_Witness ==
  \E p \in Procs :
    /\ procs[p].kind = "item" /\ procs[p].pc = "done"
    /\ procs[p].xcache = "HIT"
    /\ procs[p].body = Stringify(JsonRow(1, "a"))

\* C4: a SETEX is sent only by a read handler answering 200, for the
\* request's key and with the response body as value; an entry under
\* notes:* changes only by such a SETEX being executed; a response with
\* status 404 or 500 sends no command and changes no entry.
C4_PopulatesOnlyOnSuccess ==
  [][/\ \A c \in Appended :
          c.op = "SETEX" =>
            \E p \in Procs :
              /\ procs[p].pc = "dbDone" /\ procs'[p].pc = "done"
              /\ IsRead(procs[p])
              /\ procs'[p].handler
              /\ procs'[p].status = 200
              /\ c.val = procs'[p].body
              /\ c.keys = {procs[p].key}
     /\ \A k \in DOMAIN redisData' :
          (k \notin DOMAIN redisData \/ redisData'[k] # redisData[k])
          => /\ redisQ # <<>> /\ Head(redisQ).op = "SETEX"
             /\ Head(redisQ).keys = {k}
             /\ Head(redisQ).val = redisData'[k].val
     /\ \A p \in Procs :
          (procs[p].pc # "done" /\ procs'[p].pc = "done" /\ procs'[p].status \in {404, 500})
          => UNCHANGED <<redisQ, redisData>>]_vars

\* With the cache connected, a single-note read has answered 404 and its key
\* has no entry and no SETEX in flight.
C4_Witness ==
  \E p \in Procs :
    /\ procs[p].kind = "item" /\ procs[p].pc = "done" /\ procs[p].status = 404
    /\ CacheUp
    /\ procs[p].key \notin DOMAIN redisData
    /\ redisQ = <<>>
    /\ NotesListKey \in DOMAIN redisData

\* The keys the invalidation policy names for a write.
PolicyKeys(q) ==
  IF q.kind = "create" THEN {NotesListKey} ELSE {NotesListKey, "notes:" \o q.id}

\* C5: a write whose store operation succeeded sends, with the cache
\* connected, one DEL for each key of the policy (create: notes:list;
\* update and delete of id: notes:list and notes:<id>) and for no other;
\* a DEL of the invalidation removes no other key.
C5_InvalidatesExactKeys ==
  [][\A p \in Procs :
       /\ (procs[p].pc = "dbDone" /\ IsWrite(procs[p]) /\ procs'[p].pc # "dbDone"
           /\ procs'[p].status \notin {404, 500})
          => /\ {c.keys : c \in Appended} =
                  IF CacheUp THEN {{k} : k \in PolicyKeys(procs[p])} ELSE {}
             /\ \A c \in Appended : c.op = "DEL" /\ c.owner = p
             /\ procs'[p].issued = IF CacheUp THEN PolicyKeys(procs[p]) ELSE {}
       /\ (IsWrite(procs[p]) /\ procs[p].pending > 0 /\ procs'[p].pending < procs[p].pending)
          => /\ DOMAIN redisData \ DOMAIN redisData' \subseteq PolicyKeys(procs[p])
             /\ \A k \in DOMAIN redisData' : redisData'[k] = redisData[k]]_vars

\* An update of note 1 waits for its two DELs while another key has an entry.
C5_Witness ==
  \E p \in Procs :
    /\ procs[p].kind = "update" /\ procs[p].pc = "inval"
    /\ procs[p].issued = {NotesListKey, "notes:1"}
    /\ procs[p].pending = 1
    /\ NotesListKey \notin DOMAIN redisData
    /\ "notes:01" \in DOMAIN redisData

\* C6: a write has sent DELs only once its store operation has returned an
\* affected row: none before the store operation, and none at all when the
\* write ends in 400, 404 or 500.
C6_InvalidatesAfterStoreSuccess ==
  \A p \in Procs :
    IsWrite(procs[p]) =>
      /\ (procs[p].issued # {} \/ \E n \in 1..Len(redisQ) : redisQ[n].owner = p)
         => /\ procs[p].pc \in {"inval", "done"}
            /\ Tag(procs[p].dbres) = "row"
      /\ procs[p].status \in {400, 404, 500} => procs[p].issued = {}

\* With the cache connected and entries present, an update has ended in 404
\* without a DEL.
C6_Witness ==
  \E p \in Procs :
    /\ procs[p].kind = "update" /\ procs[p].pc = "done" /\ procs[p].status = 404
    /\ CacheUp
    /\ NotesListKey \in DOMAIN redisData
    /\ procs[p].issued = {}

\* C7: when a write has sent its success response, every DEL of its
\* invalidation has been answered.
C7_RespondsAfterInvalidation ==
  \A p \in Procs :
    (IsWrite(procs[p]) /\ procs[p].pc = "done" /\ procs[p].status \in {200, 201})
    => /\ procs[p].pending = 0
       /\ \A n \in 1..Len(redisQ) : redisQ[n].owner # p

\* A delete has responded after its two DELs were answered.
C7_Witness ==
  \E p \in Procs :
    /\ procs[p].kind = "delete" /\ procs[p].pc = "done" /\ procs[p].status = 200
    /\ Cardinality(procs[p].issued) = 2
    /\ procs[p].pending = 0


(***************************************************************************)
(* SpecSeq: one client that sends its next request when it has the        *)
(* response to the last one; the cache connects at startup and stays      *)
(* connected, no command fails, and no entry expires meanwhile.           *)
(***************************************************************************)
MaxSeq == 5   \* requests of the sequential client

Entry(q) ==
  [kind |-> q.kind, id |-> q.id, title |-> q.title, status |-> q.status,
   xcache |-> q.xcache, body |-> q.body]

\* The client receives the response.
FinishLogged(p) ==
  /\ procs[p].pc = "done"
  /\ procs' = [procs EXCEPT ![p] = IdleProc]
  /\ hist' = Append(hist, Entry(procs[p]))
  /\ UNCHANGED <<now, isConnected, stats, cacheVars, dbVars, bootVars, started, readySeen>>

NextSeq ==
  \/ DbConnectOk
  \/ CacheConnectOk
  \/ /\ \A q \in Procs : procs[q].pc = "idle"
     /\ started < MaxSeq
     /\ \/ MwEnter(1, "list", "")
        \/ MwEnter(1, "item", "1")
        \/ \E t \in Titles : WriteStart(1, "create", "", t)
        \/ \E t \in Titles : WriteStart(1, "update", "1", t)
  \/ MwGetReply(1, TRUE)
  \/ ReadDbExec(1, TRUE)
  \/ ReadResume(1)
  \/ WriteDbExec(1, TRUE)
  \/ WriteResume(1)
  \/ InvalDelReply(1, TRUE)
  \/ DetachedSetReply(TRUE)
  \/ FinishLogged(1)

SpecSeq == Init /\ [][NextSeq]_vars

ListRead(e)  == e.kind = "list" /\ e.status = 200
WriteOk(e)   == e.kind \in {"create", "update"} /\ e.status \in {200, 201}
Quiet        == \A q \in Procs : procs[q].pc = "idle"
TableJson    == Stringify(Arr(AllRows(notes)))

\* C8: for the sequential client with a connected cache: a collection read
\* that follows a successful create or update is a MISS; a collection read
\* that follows a collection read is a HIT with the same body; when the
\* response to an update of note 1 has arrived, notes:list and notes:1 have
\* no entry; and every collection read returns the table as it is then.
C8_RoundTrip ==
  /\ \A n \in 1..Len(hist) :
       /\ (n > 1 /\ WriteOk(hist[n - 1]) /\ ListRead(hist[n])) => hist[n].xcache = "MISS"
       /\ (n > 1 /\ ListRead(hist[n - 1]) /\ ListRead(hist[n]))
          => hist[n].xcache = "HIT" /\ hist[n].body = hist[n - 1].body
  /\ (Quiet /\ hist # <<>> /\ WriteOk(hist[Len(hist)]) /\ hist[Len(hist)].kind = "update")
     => /\ NotesListKey \notin DOMAIN redisData
        /\ SingleNoteKey("1") \notin DOMAIN redisData
        /\ redisQ = <<>>
  /\ (Quiet /\ hist # <<>> /\ ListRead(hist[Len(hist)])) => hist[Len(hist)].body = TableJson

\* create, read (MISS), read (HIT), update to title b, read (MISS, with b).
C8_Witness ==
  /\ Len(hist) = 5
  /\ hist[1].kind = "create" /\ hist[1].status = 201
  /\ ListRead(hist[2]) /\ hist[2].xcache = "MISS"
  /\ ListRead(hist[3]) /\ hist[3].xcache = "HIT"
  /\ hist[4].kind = "update" /\ hist[4].status = 200 /\ hist[4].title = "b"
  /\ ListRead(hist[5]) /\ hist[5].xcache = "MISS"
  /\ hist[5].body # hist[3].body
  /\ notes[1] = "b"


(***************************************************************************)
(* SpecTTL: reads and updates with the clock running, for any value of    *)
(* CACHE_TTL.  The clock jumps by a second or by just less than a TTL;    *)
(* the cache stays connected and no command fails.                        *)
(***************************************************************************)
MaxTicks == 3   \* clock jumps in one behaviour

EnvTtls   == {NaN, Num(0), Num(2), Num(-5)}
TickSizes == {1, DefaultTtl - 1, SingleTtl - 1}

RECURSIVE Sums(_)
Sums(n) == IF n = 0 THEN {0} ELSE Sums(n - 1) \cup {x + d : x \in Sums(n - 1), d \in TickSizes}
ClockPoints == Sums(MaxTicks)

Jump(d) == now + d \in ClockPoints /\ Advance(d)

InitTTL == \E e \in EnvTtls : InitWith(OrDefault(e))

NextTTL ==
  \/ DbConnectOk
  \/ CacheConnectOk
  \/ \E d \in TickSizes : Jump(d)
  \/ \E p \in Procs :
       \/ started < MaxStarted /\ MwEnter(p, "list", "")
       \/ started < MaxStarted /\ MwEnter(p, "item", "1")
       \/ started < MaxStarted /\ WriteStart(p, "update", "1", "b")
       \/ Steps(p, TRUE)
       \/ ReadResume(p)
       \/ WriteResume(p)
       \/ Finish(p)
  \/ DetachedSetReply(TRUE)

SpecTTL == InitTTL /\ [][NextTTL]_vars

\* The step in which p's lookup is answered from the cache.
HitStep(p) == HeadIs(p, "GET", "get") /\ procs'[p].xcache = "HIT"

\* C9 as stated: a value served as a HIT was read from the store at most
\* the key's TTL earlier.
C9_HitReadWithinTtl ==
  [][\A p \in Procs :
       HitStep(p) => now - redisData[procs[p].key].src <= procs[p].ttl]_vars

\* C9 amended: every entry carries the positive TTL of its middleware
\* (collection: CACHE_TTL or 60, item: 300) counted from its most recent
\* set and is gone once that has elapsed, and a value served as a HIT was
\* set less than that TTL earlier; the store read behind it precedes the
\* set by the populating request's time in flight, which no TTL bounds.
C9_EntryTtlFromLastSet ==
  [][/\ \A k \in DOMAIN redisData' :
          /\ lastSet'[k].live
          /\ lastSet'[k].ttl = (IF k = NotesListKey THEN listTtl ELSE SingleTtl)
          /\ lastSet'[k].ttl > 0
          /\ redisData'[k].exp = lastSet'[k].at + lastSet'[k].ttl
          /\ now' < redisData'[k].exp
          /\ redisData'[k].src <= lastSet'[k].at
     /\ \A p \in Procs :
          HitStep(p) => now - lastSet[procs[p].key].at < procs[p].ttl]_vars

\* With CACHE_TTL unset, a collection read is a HIT more than 60 seconds
\* after the store read behind the entry.
C9_Witness ==
  \E p \in Procs :
    /\ procs[p].kind = "list" /\ procs[p].pc = "done" /\ procs[p].xcache = "HIT"
    /\ listTtl = DefaultTtl
    /\ NotesListKey \in DOMAIN redisData
    /\ now > redisData[NotesListKey].src + DefaultTtl


(***************************************************************************)
(* getStats, and how the cache's state shows in reads and writes (Spec).  *)
(***************************************************************************)
RECURSIVE DecStr(_)
\* A natural number in decimal.
DecStr(n) == IF n < 10 THEN NumStr(n) ELSE DecStr(n \div 10) \o NumStr(n % 10)

\* Variant: the digits beyond the second decimal are cut off.
HundredthsTruncated(h, t) == (10000 * h) \div t

\* ((cacheHits / totalRequests) * 100).toFixed(2), in hundredths of a
\* percent: the nearest, the larger of two equally near.
Hundredths(h, t) == (20000 * h + t) \div (2 * t)

ToFixed2(x) == DecStr(x \div 100) \o "." \o NumStr((x % 100) \div 10) \o NumStr(x % 10)

\* hitRate as getStats reports it.
HitRate ==
  IF stats.totalRequests > 0
    THEN ToFixed2(Hundredths(stats.cacheHits, stats.totalRequests)) \o "%"
    ELSE "0%"

\* getStats(): the counters, hitRate, connected and the average as
\* `${Math.round(stats.averageResponseTime)}ms`.
GetStats ==
  [totalRequests |-> stats.totalRequests, cacheHits |-> stats.cacheHits,
   cacheMisses |-> stats.cacheMisses, hitRate |-> HitRate, connected |-> isConnected,
   averageResponseTime |->
     DecStr((2 * stats.averageResponseTime + AvgScale) \div (2 * AvgScale)) \o "ms"]

\* The read handler of p answers in this step.
ReadResponds(p) ==
  /\ procs[p].pc = "dbDone" /\ IsRead(procs[p]) /\ procs'[p].pc = "done"

\* The response is the store's result: the rows or the row as JSON with
\* 200, 404 for no row, 500 for a store error.
StoreResult(q, r) ==
  /\ r.xcache = "MISS"
  /\ r.handler
  /\ IF q.dbres = Thrown THEN r.status = 500
     ELSE IF Truthy(q.dbres) THEN r.status = 200 /\ r.body = Stringify(q.dbres)
     ELSE r.status = 404

\* C11: while the connection flag is false a read through the middleware
\* goes straight to its handler without a lookup or a count, is answered
\* with the store's result and X-Cache: MISS, sends no SETEX and changes no
\* entry; getStats reports connected = false.
C11_DisconnectedReadsFromStore ==
  [][~isConnected =>
       /\ GetStats.connected = FALSE
       /\ \A p \in Procs :
            /\ (procs[p].pc = "idle" /\ IsRead(procs'[p]))
               => /\ procs'[p].pc = "db"
                  /\ procs'[p].handler
                  /\ procs'[p].xcache = "MISS"
                  /\ UNCHANGED <<redisQ, redisData>>
                  /\ stats'.cacheHits = stats.cacheHits
                  /\ stats'.cacheMisses = stats.cacheMisses
            /\ ReadResponds(p)
               => /\ StoreResult(procs[p], procs'[p])
                  /\ UNCHANGED <<redisQ, redisData>>]_vars

\* After the connection was lost, a collection read was answered 200 from
\* the store with nothing cached.
C11_Witness ==
  /\ ~isConnected /\ readySeen
  /\ redisQ = <<>> /\ NotesListKey \notin DOMAIN redisData
  /\ stats.cacheHits + stats.cacheMisses = 0
  /\ \E p \in Procs :
       /\ procs[p].kind = "list" /\ procs[p].pc = "done"
       /\ procs[p].status = 200 /\ procs[p].xcache = "MISS"
       /\ procs[p].body = Stringify(Arr(AllRows(notes)))

\* C12: a lookup that faults sends the request on to its handler as a miss;
\* whatever the faults, a read is answered with the store's result; the
\* answer to the SETEX of the population, fault or not, touches no request.
C12_FaultLeavesReadResult ==
  [][/\ \A p \in Procs :
          /\ (HeadIs(p, "GET", "get") /\ procs'[p].fault)
             => /\ procs'[p].pc = "db"
                /\ procs'[p].handler
                /\ procs'[p].xcache = "MISS"
                /\ procs'[p].status = 0
          /\ ReadResponds(p) => StoreResult(procs[p], procs'[p])
     /\ (redisQ # <<>> /\ Head(redisQ).owner = 0 /\ redisQ' = Tail(redisQ))
        => procs' = procs]_vars

\* A single-note read whose lookup faulted was answered 200 with the row,
\* and nothing was cached.
C12_Witness ==
  \E p \in Procs :
    /\ procs[p].kind = "item" /\ procs[p].pc = "done" /\ procs[p].fault
    /\ procs[p].status = 200
    /\ procs[p].body = Stringify(RowOf(notes, 1))
    /\ isConnected /\ redisQ = <<>>
    /\ procs[p].key \notin DOMAIN redisData
    /\ started = 1

\* C13: a write whose store operation returned (for update and delete: a
\* row) is answered 201 (create) or 200 with the row (delete: the message
\* and the row), whether its DELs were sent, skipped or faulted.
C13_WriteResultIgnoresInvalidation ==
  [][\A p \in Procs :
       (/\ IsWrite(procs[p])
        /\ procs[p].pc \in {"dbDone", "inval"}
        /\ procs'[p].pc = "done"
        /\ procs[p].dbres # Thrown
        /\ (procs[p].kind = "create" \/ Truthy(procs[p].dbres)))
       => /\ procs'[p].status = IF procs[p].kind = "create" THEN 201 ELSE 200
          /\ procs'[p].body =
               Stringify(IF procs[p].kind = "delete" THEN Deleted(procs[p].dbres)
                         ELSE procs[p].dbres)]_vars

\* An update was answered 200 although a DEL of its invalidation faulted,
\* and the entries are still there.
C13_Witness ==
  \E p \in Procs :
    /\ procs[p].kind = "update" /\ procs[p].pc = "done" /\ procs[p].status = 200
    /\ procs[p].fault
    /\ procs[p].issued = {NotesListKey, "notes:1"}
    /\ procs[p].issued \subseteq DOMAIN redisData
    /\ procs[p].body = Stringify(RowOf(notes, 1))


\* C30: a read handler that has the store's answer responds in that same
\* turn; when the answer is a success and the cache is up, that turn has
\* sent the SETEX of the response under the middleware's key and TTL, which
\* nobody awaits and which is still unanswered when the response is
\* delivered; when the cache is down it sends nothing; and the backend's
\* answer to such a SETEX, success or fault, changes no response.
C30_PopulatesWithoutWaiting ==
  [][/\ \A p \in Procs :
          (procs[p].pc = "dbDone" /\ IsRead(procs[p]) /\ procs'[p] # procs[p])
          => /\ procs'[p].pc = "done"
             /\ IF procs'[p].status = 200 /\ CacheUp
                  THEN /\ Len(redisQ') = Len(redisQ) + 1
                       /\ SubSeq(redisQ', 1, Len(redisQ)) = redisQ
                       /\ LET c == redisQ'[Len(redisQ')] IN
                            /\ c.op = "SETEX" /\ c.owner = 0
                            /\ c.keys = {MwKey(procs[p].kind, procs[p].id)}
                            /\ c.ttl = MwTtl(procs[p].kind)
                            /\ c.val = procs'[p].body
                  ELSE redisQ' = redisQ
     /\ (redisQ # <<>> /\ Head(redisQ).owner = 0 /\ Head(redisQ).op = "SETEX"
         /\ redisQ' = Tail(redisQ))
          => procs' = procs]_vars

\* A read was answered 200 as a MISS while the SETEX of its response, the
\* only command in flight, is still unanswered; another read of the same
\* key has its 200 response too, and the key has no entry.
C30_Witness ==
  \E p, q \in Procs :
    /\ p # q
    /\ IsRead(procs[p]) /\ procs[p].pc = "done" /\ procs[p].status = 200
    /\ procs[p].xcache = "MISS"
    /\ redisQ # <<>>
    /\ Head(redisQ).op = "SETEX" /\ Head(redisQ).owner = 0
    /\ Head(redisQ).val = procs[p].body
    /\ IsRead(procs[q]) /\ procs[q].pc = "done" /\ procs[q].status = 200
    /\ procs[q].xcache = "MISS" /\ procs[q].key = procs[p].key
    /\ Len(redisQ) = 1 /\ ~Live(procs[q].key) /\ isConnected

(***************************************************************************)
(* The operational endpoints of index.js: POST /api/cache/clear,          *)
(* GET /api/stats and GET /health/ready.                                   *)
(***************************************************************************)
\* Variant: a clear that finds the cache down reports success.
ClearStartReportingSuccess(p) ==
  /\ CanStart(p)
  /\ started' = started + 1
  /\ LET q == [IdleProc EXCEPT !.kind = "clear"] IN
       IF CacheUp
         THEN /\ redisQ' = Append(redisQ, Cmd("FLUSHALL", {}, "", 0, p, Undefined, 0))
              /\ procs' = [procs EXCEPT ![p] = [q EXCEPT !.pc = "await"]]
         ELSE /\ redisQ' = redisQ
              /\ procs' = [procs EXCEPT ![p] = Respond(q, 200, Msg("Cache cleared successfully"))]
  /\ UNCHANGED <<hist, now, isConnected, stats, redisData, lastSet, dbVars, bootVars, readySeen>>

\* POST /api/cache/clear up to await cache.flushAll(); flushAll returns
\* false at once when the cache is down.
ClearStart(p) ==
  /\ CanStart(p)
  /\ started' = started + 1
  /\ LET q == [IdleProc EXCEPT !.kind = "clear"] IN
       IF CacheUp
         THEN /\ redisQ' = Append(redisQ, Cmd("FLUSHALL", {}, "", 0, p, Undefined, 0))
              /\ procs' = [procs EXCEPT ![p] = [q EXCEPT !.pc = "await"]]
         ELSE /\ redisQ' = redisQ
              /\ procs' = [procs EXCEPT ![p] = Respond(q, 500, ErrObj("Failed to clear cache"))]
  /\ UNCHANGED <<hist, now, isConnected, stats, redisData, lastSet, dbVars, bootVars, readySeen>>

\* Variant: a successful clear resets the counters.
ClearReplyResetting(p, ok) ==
  /\ HeadIs(p, "FLUSHALL", "await")
  /\ procs[p].kind = "clear"
  /\ IF ok THEN /\ redisData' = RedisFlushAll
                /\ lastSet' = NoteDel(DOMAIN lastSet)
           ELSE UNCHANGED <<redisData, lastSet>>
  /\ stats' = IF ok THEN [stats EXCEPT !.totalRequests = 0, !.cacheHits = 0,
                                         !.cacheMisses = 0]
              ELSE stats
  /\ procs' = [procs EXCEPT ![p] =
       IF ok THEN Respond(procs[p], 200, Msg("Cache cleared successfully"))
       ELSE [Respond(procs[p], 500, ErrObj("Failed to clear cache")) EXCEPT !.fault = TRUE]]
  /\ redisQ' = Tail(redisQ)
  /\ UNCHANGED <<hist, now, isConnected, dbVars, bootVars, started, readySeen>>

\* flushAll's continuation and the handler's: 200 if it returned true.
ClearReply(p, ok) ==
  /\ HeadIs(p, "FLUSHALL", "await")
  /\ procs[p].kind = "clear"
  /\ IF ok THEN /\ redisData' = RedisFlushAll
                /\ lastSet' = NoteDel(DOMAIN lastSet)
           ELSE UNCHANGED <<redisData, lastSet>>
  /\ procs' = [procs EXCEPT ![p] =
       IF ok THEN Respond(procs[p], 200, Msg("Cache cleared successfully"))
       ELSE [Respond(procs[p], 500, ErrObj("Failed to clear cache")) EXCEPT !.fault = TRUE]]
  /\ redisQ' = Tail(redisQ)
  /\ UNCHANGED <<hist, now, isConnected, stats, dbVars, bootVars, started, readySeen>>

\* res.json({...stats, currentCacheKeys: keyCount, ...}).
StatsInfo(snap, n) == [type |-> "stats", stats |-> snap, currentCacheKeys |-> n]

\* GET /api/stats: getStats(), then await getKeyCount(), whose getAllKeys
\* returns [] at once when the cache is down.
StatsStart(p) ==
  /\ CanStart(p)
  /\ started' = started + 1
  /\ LET q == [IdleProc EXCEPT !.kind = "stats", !.info = StatsInfo(GetStats, 0)] IN
       IF CacheUp
         THEN /\ redisQ' = Append(redisQ, Cmd("KEYS", {"*"}, "", 0, p, Undefined, 0))
              /\ procs' = [procs EXCEPT ![p] = [q EXCEPT !.pc = "await"]]
         ELSE /\ redisQ' = redisQ
              /\ procs' = [procs EXCEPT ![p] = [q EXCEPT !.pc = "done", !.status = 200]]
  /\ UNCHANGED <<hist, now, isConnected, stats, redisData, lastSet, dbVars, bootVars, readySeen>>

\* getAllKeys' continuation ([] on a fault) and the handler's response.
StatsKeysReply(p, ok) ==
  /\ HeadIs(p, "KEYS", "await")
  /\ procs[p].kind = "stats"
  /\ procs' = [procs EXCEPT ![p] =
       [procs[p] EXCEPT !.pc = "done", !.status = 200, !.fault = ~ok,
          !.info = StatsInfo(procs[p].info.stats,
                             IF ok THEN Cardinality(RedisKeys("*")) ELSE 0)]]
  /\ redisQ' = Tail(redisQ)
  /\ UNCHANGED <<hist, now, isConnected, stats, redisData, lastSet, dbVars, bootVars, started,
                 readySeen>>

\* One entry of checks in the readiness response; responseTime is -1 for
\* an entry that has none.
Check(st, err, warn) == [status |-> st, error |-> err, warning |-> warn, responseTime |-> -1]

\* { status: 'connected', responseTime: Date.now() - startTime }
Timed(check, ms) == [check EXCEPT !.responseTime = ms]
NoCheck == Check("", "", "")

DbOkCheck       == Check("connected", "", "")
DbFlagDownCheck == Check("disconnected", "Database connection not established", "")
DbErrorCheck    == Check("error", "query failed", "")
CacheOkCheck    == Check("connected", "", "")

\* Variant: the cache check reports the outage as an error.
CacheDownAsError == Check("disconnected", "Redis cache unavailable (degraded mode)", "")

CacheDownCheck  == Check("disconnected", "", "Redis cache unavailable (degraded mode)")

\* checks.memory.status: memUsageMB > 500 ? 'warning' : 'ok'.
MemStatuses == {"ok", "warning"}

\* Variant: the probe always answers 200.
ReadyAlways200(overall) == 200

\* const statusCode = overallStatus === 'ready' ? 200 : 503.
ReadyStatusCode(overall) == IF overall = "ready" THEN 200 ELSE 503

ReadyInfo(overall, db) ==
  [type |-> "ready", overall |-> overall, database |-> db, cache |-> NoCheck, memory |-> ""]

\* The memory check and the response.
ReadyRespond(q, cacheCheck, mem) ==
  [q EXCEPT !.pc = "done", !.status = ReadyStatusCode(q.info.overall),
            !.info = [q.info EXCEPT !.cache = cacheCheck, !.memory = mem]]

\* 'health_check_' + Date.now()
TestKey == "health_check_" \o NumStr(now)

\* Variant: the cache check sends its probe value whatever the flag is.
ReadyCacheCheckAlwaysProbing(p, q, mem) ==
  /\ redisQ' = Append(redisQ, SetCmd(TestKey, Str("ok"), ProbeTtl, p, now))
  /\ procs' = [procs EXCEPT ![p] =
       [q EXCEPT !.pc = "probeSet", !.key = TestKey, !.probeAt = q.ms]]

\* The cache check, from cache.getConnectionStatus() to the await of
\* cache.set(testKey, 'ok', 5), or to the response when the flag is false.
ReadyCacheCheck(p, q, mem) ==
  IF isConnected /\ SetSends(Str("ok"))
    THEN /\ redisQ' = Append(redisQ, SetCmd(TestKey, Str("ok"), ProbeTtl, p, now))
         /\ procs' = [procs EXCEPT ![p] =
              [q EXCEPT !.pc = "probeSet", !.key = TestKey, !.probeAt = q.ms]]
    ELSE /\ redisQ' = redisQ
         /\ procs' = [procs EXCEPT ![p] =
              ReadyRespond(q, IF isConnected THEN Timed(CacheOkCheck, q.ms)
                              ELSE CacheDownCheck, mem)]

\* GET /health/ready up to await db.getAllNotes(), or past the database
\* check when db.getConnectionStatus() is false.
ReadyStart(p, mem) ==
  /\ CanStart(p)
  /\ started' = started + 1
  /\ LET q == [IdleProc EXCEPT !.kind = "ready"] IN
       IF dbConnected
         THEN /\ redisQ' = redisQ
              /\ procs' = [procs EXCEPT ![p] =
                   [q EXCEPT !.pc = "db", !.info = ReadyInfo("ready", NoCheck)]]
         ELSE ReadyCacheCheck(p, [q EXCEPT !.info = ReadyInfo("not_ready", DbFlagDownCheck)],
                              mem)
  /\ UNCHANGED <<hist, now, isConnected, stats, redisData, lastSet, dbVars, bootVars, readySeen>>

\* The probe's db.getAllNotes() executed by PostgreSQL.
ReadyDbExec(p, ok) ==
  /\ procs[p].pc = "db"
  /\ procs[p].kind = "ready"
  /\ procs' = [procs EXCEPT ![p].pc = "dbDone", ![p].dbres = ReadQuery("list", "", ok)]
  /\ UNCHANGED <<hist, now, isConnected, stats, cacheVars, dbVars, bootVars, started, readySeen>>

\* The database check's result, then the cache check.
ReadyDbResume(p, mem) ==
  /\ procs[p].pc = "dbDone"
  /\ procs[p].kind = "ready"
  /\ ReadyCacheCheck(p,
       [procs[p] EXCEPT !.info = IF procs[p].dbres = Thrown
                                   THEN ReadyInfo("not_ready", DbErrorCheck)
                                   ELSE ReadyInfo("ready", Timed(DbOkCheck, procs[p].ms))],
       mem)
  /\ UNCHANGED <<hist, now, isConnected, stats, redisData, lastSet, dbVars, bootVars, started,
                 readySeen>>

\* set's continuation, then await cache.del(testKey): a DEL when the cache
\* is up, else false at once and the response.
ReadySetReply(p, ok, mem) ==
  /\ HeadIs(p, "SETEX", "probeSet")
  /\ SetExEffect(Head(redisQ), ok)
  /\ IF CacheUp
       THEN /\ redisQ' = Append(Tail(redisQ),
                                Cmd("DEL", {procs[p].key}, "", 0, p, Undefined, 0))
            /\ procs' = [procs EXCEPT ![p].pc = "probeDel", ![p].fault = ~ok]
       ELSE /\ redisQ' = Tail(redisQ)
            /\ procs' = [procs EXCEPT ![p] =
                 ReadyRespond([procs[p] EXCEPT !.fault = ~ok],
                              Timed(CacheOkCheck, procs[p].ms), mem)]
  /\ UNCHANGED <<hist, now, isConnected, stats, dbVars, bootVars, started, readySeen>>

\* del's continuation, the memory check and the response.
ReadyDelReply(p, ok, mem) ==
  /\ HeadIs(p, "DEL", "probeDel")
  /\ DelEffect(Head(redisQ), ok)
  /\ redisQ' = Tail(redisQ)
  /\ procs' = [procs EXCEPT ![p] =
       ReadyRespond([procs[p] EXCEPT !.fault = @ \/ ~ok],
                    Timed(CacheOkCheck, procs[p].ms), mem)]
  /\ UNCHANGED <<hist, now, isConnected, stats, dbVars, bootVars, started, readySeen>>

(***************************************************************************)
(* SpecOps: reads and an update of note 1 together with cache clears,     *)
(* stats requests and readiness probes, with the startup and the          *)
(* connection events.                                                      *)
(***************************************************************************)
OpsRequests(p) ==
  \/ MwEnter(p, "list", "")
  \/ MwEnter(p, "item", "1")
  \/ WriteStart(p, "update", "1", "b")
  \/ ClearStart(p)
  \/ StatsStart(p)
  \/ \E mem \in MemStatuses : ReadyStart(p, mem)

OpsSteps(p, ok) ==
  \/ Steps(p, ok)
  \/ ClearReply(p, ok)
  \/ StatsKeysReply(p, ok)
  \/ ReadyDbExec(p, ok)
  \/ \E mem \in MemStatuses : ReadySetReply(p, ok, mem)
  \/ \E mem \in MemStatuses : ReadyDelReply(p, ok, mem)

NextOps ==
  \/ Startup
  \/ Events
  \/ \E p \in Procs :
       \/ started < MaxStarted /\ OpsRequests(p)
       \/ \E ok \in BOOLEAN : OpsSteps(p, ok)
       \/ ReadResume(p)
       \/ WriteResume(p)
       \/ \E mem \in MemStatuses : ReadyDbResume(p, mem)
       \/ Finish(p)
  \/ \E ok \in BOOLEAN : DetachedSetReply(ok)

SpecOps == Init /\ [][NextOps]_vars


(***************************************************************************)
(* Properties of the counters and of the readiness probe (SpecOps; C15    *)
(* is about get itself and is checked under SpecKV).                      *)
(***************************************************************************)
\* C14: hits + misses <= totalRequests in every reachable state.
C14_HitsAndMissesWithinRequests ==
  stats.cacheHits + stats.cacheMisses <= stats.totalRequests

\* After a readiness probe that used the cache, the counters stand at one
\* hit and one miss for two requests.
C14_Witness ==
  /\ stats.cacheHits = 1 /\ stats.cacheMisses = 1 /\ stats.totalRequests = 2
  /\ \E p \in Procs :
       /\ procs[p].kind = "ready" /\ procs[p].pc = "done"
       /\ procs[p].info.cache = Timed(CacheOkCheck, 0)
       /\ procs[p].key # ""

\* A get that ends without an answer from the backend: the cache was down
\* at the call, or the command faulted.
GetUnreachable(p) ==
  /\ procs'[p].kind = "get"
  /\ procs[p].pc \in {"idle", "await"}
  /\ procs'[p].pc = "done"
  /\ (procs[p].pc = "idle" \/ procs'[p].fault)

\* C15: a get attempted while the backend is unreachable, be it that the
\* connection flag is false or that the command faults, returns absent and
\* leaves hits and misses unchanged.
C15_UnreachableGetCountsNothing ==
  [][\A p \in Procs :
       GetUnreachable(p) =>
         /\ procs'[p].ret = Null
         /\ stats'.cacheHits = stats.cacheHits
         /\ stats'.cacheMisses = stats.cacheMisses]_vars

\* A get whose command faulted has returned absent, and a miss is counted.
C15_Witness ==
  \E p \in Procs :
    /\ procs[p].kind = "get" /\ procs[p].pc = "done" /\ procs[p].fault
    /\ procs[p].ret = Null
    /\ stats.cacheMisses = 1 /\ started = 1

\* A request enters the cache middleware in this step.
MwEnters(p) == procs[p].pc = "idle" /\ IsRead(procs'[p])

\* C16: a step changes totalRequests exactly when a request enters the
\* middleware, by one, and that step precedes the lookup's answer: it
\* counts neither hit nor miss.
C16_TotalCountsEntries ==
  [][/\ \A p \in Procs :
          MwEnters(p) => /\ stats'.totalRequests = stats.totalRequests + 1
                         /\ stats'.cacheHits = stats.cacheHits
                         /\ stats'.cacheMisses = stats.cacheMisses
     /\ stats'.totalRequests # stats.totalRequests => \E p \in Procs : MwEnters(p)]_vars

\* Three requests are counted: one populated the cache, one was a HIT and
\* one ended in 500.
C16_Witness ==
  /\ stats.totalRequests = 3
  /\ \E p, q \in Procs :
       /\ procs[p].pc = "done" /\ IsRead(procs[p]) /\ procs[p].xcache = "HIT"
       /\ procs[q].pc = "done" /\ IsRead(procs[q]) /\ procs[q].status = 500

\* The hit rate getStats reports, in hundredths of a percent.
Reported == IF stats.totalRequests > 0
              THEN Hundredths(stats.cacheHits, stats.totalRequests) ELSE 0

\* C17 as stated: the reported hit rate is 0 for no requests and else
\* equals 100 * hits / totalRequests, within [0, 100].
C17_HitRateExact ==
  /\ stats.totalRequests = 0 => HitRate = "0%"
  /\ stats.totalRequests > 0 =>
       /\ HitRate = ToFixed2(Reported) \o "%"
       /\ Reported * stats.totalRequests = 10000 * stats.cacheHits
       /\ Reported \in 0..10000

\* C17 amended: it is "0%" for no requests and else 100 * hits /
\* totalRequests rounded to the nearest hundredth, with two decimals and a
\* percent sign, within [0, 100].
C17_HitRateRounded ==
  /\ stats.totalRequests = 0 => HitRate = "0%"
  /\ stats.totalRequests > 0 =>
       LET d == Reported * stats.totalRequests - 10000 * stats.cacheHits IN
         /\ HitRate = ToFixed2(Reported) \o "%"
         /\ 2 * d <= stats.totalRequests /\ -2 * d <= stats.totalRequests
         /\ Reported \in 0..10000

\* Two hits in three requests are reported as 66.67%.
C17_Witness ==
  /\ stats.cacheHits = 2 /\ stats.totalRequests = 3
  /\ GetStats.hitRate = "66.67%"

\* C18: no step lowers totalRequests, hits or misses.
C18_CountersNeverDecrease ==
  [][/\ stats'.totalRequests >= stats.totalRequests
     /\ stats'.cacheHits >= stats.cacheHits
     /\ stats'.cacheMisses >= stats.cacheMisses]_vars

\* The cache was cleared and the connection lost, and the counters still
\* show the hit and the miss from before.
C18_Witness ==
  /\ stats.totalRequests = 2 /\ stats.cacheHits = 1 /\ stats.cacheMisses = 1
  /\ ~isConnected
  /\ \E p \in Procs : procs[p].kind = "clear" /\ procs[p].pc = "done" /\ procs[p].status = 200

\* A readiness probe has answered.
ReadyDone(q) == q.kind = "ready" /\ q.pc = "done"

\* The store probe ended in connected: the flag was true and the query
\* returned rows.
StoreProbeOk(q) == Tag(q.dbres) = "arr"

\* C19: when the store probe does not end in connected, the verdict is
\* not_ready, the status 503 and the database check carries an error; the
\* status is 200 exactly for ready and 503 exactly for not_ready.
C19_ReadinessFollowsStore ==
  \A p \in Procs :
    ReadyDone(procs[p]) =>
      LET r == procs[p].info IN
        /\ ~StoreProbeOk(procs[p]) =>
             /\ r.database.status # "connected"
             /\ r.overall = "not_ready"
             /\ procs[p].status = 503
             /\ r.database.error # ""
        /\ r.overall \in {"ready", "not_ready"}
        /\ procs[p].status = 200 <=> r.overall = "ready"
        /\ procs[p].status = 503 <=> r.overall = "not_ready"

\* A probe whose query faulted answered 503 with the cache check connected.
C19_Witness ==
  \E p \in Procs :
    /\ ReadyDone(procs[p])
    /\ procs[p].dbres = Thrown
    /\ procs[p].status = 503
    /\ procs[p].info.database = DbErrorCheck
    /\ procs[p].info.cache = Timed(CacheOkCheck, 0)

\* C20: the verdict is ready exactly when the store probe ended in
\* connected, so two probes with the same store outcome have the same
\* verdict and status whatever their cache and memory checks; a cache check
\* that is not connected has a warning and no error.
C20_VerdictFromStoreOnly ==
  /\ \A p \in Procs :
       ReadyDone(procs[p]) =>
         /\ procs[p].info.overall = "ready" <=> StoreProbeOk(procs[p])
         /\ procs[p].info.cache.status # "connected" =>
              /\ procs[p].info.cache.warning # ""
              /\ procs[p].info.cache.error = ""
  /\ \A p, q \in Procs :
       (/\ ReadyDone(procs[p]) /\ ReadyDone(procs[q])
        /\ procs[p].info.database.status = procs[q].info.database.status)
       => /\ procs[p].info.overall = procs[q].info.overall
          /\ procs[p].status = procs[q].status

\* Two probes with the store connected are both ready, one with the cache
\* connected and memory ok, the other with the cache down and a memory
\* warning.
C20_Witness ==
  \E p, q \in Procs :
    /\ ReadyDone(procs[p]) /\ ReadyDone(procs[q])
    /\ procs[p].info.database = Timed(DbOkCheck, 0) /\ procs[q].info.database = Timed(DbOkCheck, 0)
    /\ procs[p].info.cache = Timed(CacheOkCheck, 0) /\ procs[q].info.cache = CacheDownCheck
    /\ procs[p].info.memory = "ok" /\ procs[q].info.memory = "warning"
    /\ procs[p].info.overall = "ready" /\ procs[q].info.overall = "ready"


\* C25: a cache clear whose FLUSHALL the backend executes answers 200 and
\* leaves no entry, and an entry appears afterwards only by a SETEX; a clear
\* that finds the cache down sends no command, and it and a clear whose
\* command faults change no entry and answer 500 with an error.
C25_FlushClearsOrReportsFailure ==
  [][/\ \A p \in Procs :
          (procs'[p].kind = "clear" /\ procs[p].pc \in {"idle", "await"}
           /\ procs'[p].pc = "done")
          => IF procs[p].pc = "await" /\ ~procs'[p].fault
               THEN /\ procs'[p].status = 200
                    /\ DOMAIN redisData' = {}
               ELSE /\ procs'[p].status = 500
                    /\ procs'[p].body = Stringify(ErrObj("Failed to clear cache"))
                    /\ redisData' = redisData
                    /\ procs[p].pc = "idle" => redisQ' = redisQ
     /\ DOMAIN redisData' \ DOMAIN redisData # {}
          => redisQ # <<>> /\ Head(redisQ).op = "SETEX"]_vars

\* A key had been set; a clear was answered 200 and no entry is left;
\* another clear, which found the cache down, was answered 500.
C25_Witness ==
  \E p, q \in Procs :
    /\ procs[p].kind = "clear" /\ procs[p].pc = "done" /\ procs[p].status = 200
    /\ procs[q].kind = "clear" /\ procs[q].pc = "done" /\ procs[q].status = 500
    /\ ~procs[q].fault
    /\ DOMAIN redisData = {}
    /\ \E k \in DOMAIN lastSet : lastSet[k] = NoSet

\* C27: a readiness probe answers with the cache check connected only in
\* the step in which the backend has answered the removal of the probe
\* value, and only if neither the write nor the removal faulted.
C27_ConnectedOnlyIfBothStepsSucceed ==
  [][\A p \in Procs :
       (/\ procs[p].pc # "done"
        /\ ReadyDone(procs'[p])
        /\ procs'[p].info.cache.status = "connected")
       => /\ procs[p].pc = "probeDel"
          /\ ~procs'[p].fault]_vars

\* A probe whose write and removal were sent and of which one faulted has
\* answered 200 with the cache check connected.
C27_Witness ==
  \E p \in Procs :
    /\ ReadyDone(procs[p])
    /\ procs[p].key # ""
    /\ procs[p].fault
    /\ procs[p].info.cache = Timed(CacheOkCheck, 0)
    /\ procs[p].status = 200

\* The readiness probe of p comes to its cache check in this step.
ReachesCacheCheck(p) ==
  /\ procs'[p].kind = "ready"
  /\ procs'[p].pc # procs[p].pc
  /\ \/ procs[p].pc = "idle" /\ ~dbConnected
     \/ procs[p].pc = "dbDone"

\* C28: a readiness probe that finds the store's flag false issues no query
\* and reports the store disconnected; one that finds the cache's flag
\* false issues no command, reports the cache disconnected and answers in
\* that step; and the probe sends its removal only while the cache's flag
\* is true.  (db.js sets its flag before the server listens and never
\* clears it: the steps that exercise the property are the cache's.)
C28_FlagFalseShortCircuits ==
  [][\A p \in Procs :
       /\ (procs[p].pc = "idle" /\ procs'[p].kind = "ready" /\ ~dbConnected)
            => /\ procs'[p].pc # "db"
               /\ procs'[p].info.database.status = "disconnected"
       /\ (ReachesCacheCheck(p) /\ ~isConnected)
            => /\ ReadyDone(procs'[p])
               /\ procs'[p].info.cache.status = "disconnected"
               /\ procs'[p].key = ""
               /\ redisQ' = redisQ
               /\ redisData' = redisData
       /\ (procs[p].kind = "ready" /\ procs[p].pc = "probeSet"
           /\ procs'[p].pc # "probeSet" /\ ~isConnected)
            => redisQ' = Tail(redisQ)]_vars

\* A probe found the store connected and the cache's flag false: it
\* answered 200 with the cache check disconnected, and no command is in
\* flight.
C28_Witness ==
  \E p \in Procs :
    /\ ReadyDone(procs[p])
    /\ StoreProbeOk(procs[p])
    /\ procs[p].info.cache = CacheDownCheck
    /\ procs[p].key = ""
    /\ procs[p].status = 200
    /\ redisQ = <<>> /\ DOMAIN redisData = {}
    /\ readySeen

(***************************************************************************)
(* GET /health/live, GET /metrics and gracefulShutdown (index.js).         *)
(***************************************************************************)
\* Variant: the liveness endpoint answers 503 while the cache is down.
HealthLiveProbing(p) ==
  /\ CanStart(p)
  /\ started' = started + 1
  /\ procs' = [procs EXCEPT ![p] =
       [IdleProc EXCEPT !.kind = "live", !.pc = "done",
                        !.status = IF isConnected THEN 200 ELSE 503,
                        !.info = [type |-> "live", status |-> "alive"]]]
  /\ UNCHANGED <<hist, now, isConnected, stats, cacheVars, dbVars, bootVars, readySeen>>

\* GET /health/live: res.json({status: 'alive', ...}) in the handler's one
\* turn (res.json answers with status 200).
HealthLive(p) ==
  /\ CanStart(p)
  /\ started' = started + 1
  /\ procs' = [procs EXCEPT ![p] =
       [IdleProc EXCEPT !.kind = "live", !.pc = "done", !.status = 200,
                        !.info = [type |-> "live", status |-> "alive"]]]
  /\ UNCHANGED <<hist, now, isConnected, stats, cacheVars, dbVars, bootVars, readySeen>>

\* GET /health, in one turn: status 'ok' and the two connection flags as
\* 'connected' / 'disconnected' (res.json answers with status 200; nothing
\* in the try block throws).
Health(p) ==
  /\ CanStart(p)
  /\ started' = started + 1
  /\ procs' = [procs EXCEPT ![p] =
       [IdleProc EXCEPT !.kind = "health", !.pc = "done", !.status = 200,
          !.info = [type |-> "health", status |-> "ok",
                    database |-> IF dbConnected THEN "connected" ELSE "disconnected",
                    cache |-> IF isConnected THEN "connected" ELSE "disconnected"]]]
  /\ UNCHANGED <<hist, now, isConnected, stats, cacheVars, dbVars, bootVars, readySeen>>

\* `${cacheStats[name] || 0}`: the text of the property, or 0 for a property
\* the object getStats returns does not have.  (hitRate, the one property
\* read that it has, is a string that is never empty.)
Emit(obj, name) == IF name \in DOMAIN obj THEN obj[name] ELSE "0"

\* GET /metrics, in one turn: the values of the cache lines and of the two
\* status gauges.
Metrics(p) ==
  /\ CanStart(p)
  /\ started' = started + 1
  /\ procs' = [procs EXCEPT ![p] =
       [IdleProc EXCEPT !.kind = "metrics", !.pc = "done", !.status = 200,
          !.info = [type |-> "metrics",
                    hits |-> Emit(GetStats, "hits"),
                    misses |-> Emit(GetStats, "misses"),
                    hitRate |-> Emit(GetStats, "hitRate"),
                    database |-> IF dbConnected THEN "1" ELSE "0",
                    cache |-> IF isConnected THEN "1" ELSE "0"]]]
  /\ UNCHANGED <<hist, now, isConnected, stats, cacheVars, dbVars, bootVars, readySeen>>

\* What db.js exports (module.exports).
DbExports ==
  {"connectWithRetry", "query", "getAllNotes", "getNoteById", "createNote",
   "updateNote", "deleteNote", "getConnectionStatus", "pool"}

\* SIGTERM or SIGINT, once startServer has registered gracefulShutdown:
\* server.close(callback), and the 10 second timer is armed.  The server
\* accepts no new connection.
Signal ==
  /\ Listening
  /\ boot' = [boot EXCEPT !.phase = "closing"]
  /\ UNCHANGED <<hist, now, isConnected, stats, cacheVars, dbVars, procs, started, readySeen,
                 clientCreated, dbConnected, listTtl>>

\* server.close's callback, called when every connection has ended:
\* if (db.close) await db.close(); if (cache.client && cache.client())
\* await cache.client().quit(); process.exit(0).
ServerClosed ==
  /\ boot.phase = "closing"
  /\ \A p \in Procs : procs[p].pc = "idle"
  /\ LET c == boot.closed \cup {"http"}
                \cup (IF "close" \in DbExports THEN {"pool"} ELSE {}) IN
       IF clientCreated
         THEN /\ redisQ' = Append(redisQ, Cmd("QUIT", {}, "", 0, 0, Undefined, 0))
              /\ boot' = [boot EXCEPT !.phase = "quit", !.closed = c]
         ELSE /\ redisQ' = redisQ
              /\ boot' = [boot EXCEPT !.phase = "exited", !.code = 0, !.closed = c]
  /\ UNCHANGED <<hist, now, isConnected, stats, redisData, lastSet, dbVars, procs, started,
                 readySeen, clientCreated, dbConnected, listTtl>>

\* quit() settles: process.exit(0), or the catch's process.exit(1) when it
\* rejects.
QuitReply(ok) ==
  /\ boot.phase = "quit"
  /\ redisQ # <<>>
  /\ Head(redisQ).op = "QUIT"
  /\ redisQ' = Tail(redisQ)
  /\ boot' = IF ok THEN [boot EXCEPT !.phase = "exited", !.code = 0,
                                     !.closed = @ \cup {"redis"}]
             ELSE [boot EXCEPT !.phase = "exited", !.code = 1]
  /\ UNCHANGED <<hist, now, isConnected, stats, redisData, lastSet, dbVars, procs, started,
                 readySeen, clientCreated, dbConnected, listTtl>>

\* Variant: the timer is cancelled once the HTTP server has closed.
ForceExitUntilClosed ==
  /\ boot.phase = "closing"
  /\ boot' = [boot EXCEPT !.phase = "exited", !.code = 1]
  /\ UNCHANGED <<hist, now, isConnected, stats, cacheVars, dbVars, procs, started, readySeen,
                 clientCreated, dbConnected, listTtl>>

\* The 10 second timer fires before the shutdown is through: process.exit(1).
ForceExit ==
  /\ boot.phase \in {"closing", "quit"}
  /\ boot' = [boot EXCEPT !.phase = "exited", !.code = 1]
  /\ UNCHANGED <<hist, now, isConnected, stats, cacheVars, dbVars, procs, started, readySeen,
                 clientCreated, dbConnected, listTtl>>

(***************************************************************************)
(* SpecLife: the process from startup to exit, serving collection reads,  *)
(* health and liveness checks and metrics requests meanwhile.  Every connection      *)
(* attempt settles and every retry timer fires (the pool has a connection *)
(* timeout, db.js line 11).                                                *)
(***************************************************************************)
NextLife ==
  \/ Startup
  \/ boot.phase # "exited" /\ OnReady
  \/ boot.phase # "exited" /\ OnError
  \/ boot.phase # "exited" /\ OnEnd
  \/ boot.phase # "exited" /\ OnConnect
  \/ \E p \in Procs :
       \/ started < MaxStarted /\ MwEnter(p, "list", "")
       \/ started < MaxStarted /\ HealthLive(p)
       \/ started < MaxStarted /\ Metrics(p)
       \/ started < MaxStarted /\ Health(p)
       \/ \E ok \in BOOLEAN : boot.phase # "exited" /\ MwGetReply(p, ok)
       \/ \E ok \in BOOLEAN : boot.phase # "exited" /\ ReadDbExec(p, ok)
       \/ boot.phase # "exited" /\ ReadResume(p)
       \/ boot.phase # "exited" /\ Finish(p)
  \/ \E ok \in BOOLEAN : boot.phase # "exited" /\ DetachedSetReply(ok)
  \/ \E ok \in BOOLEAN : QuitReply(ok)
  \/ Signal
  \/ ServerClosed
  \/ ForceExit

SpecLife == Init /\ [][NextLife]_vars /\ WF_vars(Startup)

\* C21: the liveness endpoint answers 200 with alive whatever the
\* connection flags of the store and of the cache are, in the turn in which
\* the request arrives, and issues no command to the cache and no query to
\* the store.
C21_LivenessAlways200 ==
  [][\A p \in Procs :
       (procs[p].pc = "idle" /\ procs'[p].kind = "live")
       => /\ procs'[p].pc = "done"
          /\ procs'[p].status = 200
          /\ procs'[p].info.status = "alive"
          /\ redisQ' = redisQ
          /\ redisData' = redisData
          /\ notes' = notes]_vars

\* A liveness check was answered 200 while the cache was down and a
\* collection read was waiting for the store.
C21_Witness ==
  \E p, q \in Procs :
    /\ procs[p].kind = "live" /\ procs[p].pc = "done" /\ procs[p].status = 200
    /\ ~isConnected
    /\ procs[q].kind = "list" /\ procs[q].pc = "db"

C26_MetricsExposeCounters ==
  [][\A p \in Procs :
       (procs[p].pc = "idle" /\ procs'[p].kind = "metrics")
       => /\ procs'[p].info.hits = DecStr(stats.cacheHits)
          /\ procs'[p].info.misses = DecStr(stats.cacheMisses)
          /\ procs'[p].info.hitRate = HitRate]_vars

\* With one hit and one miss counted, a metrics request has emitted 0 for
\* both counters, and 50.00% for the hit rate.
C26_Witness ==
  \E p \in Procs :
    /\ procs[p].kind = "metrics" /\ procs[p].pc = "done" /\ procs[p].status = 200
    /\ stats.cacheHits = 1 /\ stats.cacheMisses = 1
    /\ procs[p].info.hits = "0" /\ procs[p].info.misses = "0"
    /\ procs[p].info.hitRate = "50.00%"

\* C29: the process exits with code 0 after a signal only when the HTTP
\* server has closed, the database connections have been closed and the
\* cache client has quit.
C29_ExitZeroAfterCleanup ==
  (boot.phase = "exited" /\ boot.code = 0)
  => {"http", "pool", "redis"} \subseteq boot.closed

\* After a signal the process has exited with code 0, the server closed
\* and the cache client quit, with the store connected and its pool never
\* closed.
C29_Witness ==
  /\ boot.phase = "exited" /\ boot.code = 0
  /\ boot.closed = {"http", "redis"}
  /\ dbConnected
  /\ redisQ = <<>>


(***************************************************************************)
(* The counters while lookups are under way (Spec).                        *)
(***************************************************************************)
\* Requests counted at the middleware's entry for which get has counted
\* neither a hit nor a miss.
Uncounted == stats.totalRequests - (stats.cacheHits + stats.cacheMisses)

\* Middleware invocations that await their get.
LookingUp == Cardinality({p \in Procs : procs[p].pc = "get"})

\* Requests whose response has not reached the client.
InFlight == Cardinality({p \in Procs : procs[p].pc # "idle"})

\* C31: while the cache is connected, totalRequests - (hits + misses) is
\* the number of middleware invocations whose lookup is under way: nothing
\* is uncounted before the first request, every step taken with the cache
\* connected changes both numbers by the same amount, and if the cache is
\* connected whenever the server listens the two are equal in every state;
\* the lookups under way never exceed the requests in flight.
C31_UncountedAreLookups ==
  /\ [](started = 0 => Uncounted = 0 /\ LookingUp = 0)
  /\ [][CacheUp => Uncounted' - Uncounted = LookingUp' - LookingUp]_vars
  /\ [](LookingUp <= InFlight)
  /\ ([](Listening => CacheUp) => [](Uncounted = LookingUp))

\* Two lookups are under way, both counted in totalRequests and in nothing
\* else, after a third request was counted as a hit or a miss.
C31_Witness ==
  /\ isConnected
  /\ LookingUp = 2 /\ Uncounted = 2
  /\ stats.totalRequests = 3
  /\ stats.cacheHits + stats.cacheMisses = 1
  /\ \A p \in Procs : procs[p].kind \in {"list", "item"}


(***************************************************************************)
(* The connection flag of the cache (SpecKV).                              *)
(***************************************************************************)
\* A step of one of the client's event handlers for 'ready' (the one that
\* lets the startup's connect() resolve included), 'error' and 'end'.
ReadyStep == OnReady \/ CacheConnectOk
DownStep  == OnError \/ OnEnd

\* C32: the flag is false as long as no 'ready' has occurred; only a step
\* of the 'ready', 'error' or 'end' handler changes it, so no 'connect'
\* event and no step of get, set, del, delPattern or flushAll does; it is
\* true after 'ready' and false after 'error' and after 'end', hence true
\* exactly when the last of these events was 'ready'; and a 'ready' in
\* degraded mode ends degraded mode: the cache functions go to the backend
\* again.
C32_StatusFollowsEvents ==
  /\ [](~readySeen => ~isConnected)
  /\ [][/\ isConnected' # isConnected => ReadyStep \/ DownStep
        /\ ReadyStep => isConnected'
        /\ DownStep => ~isConnected'
        /\ (\A p \in Procs : procs'[p] # procs[p]) => isConnected' = isConnected
        /\ redisQ' # redisQ => isConnected' = isConnected
        /\ (Degraded /\ OnReady) => CacheUp' /\ ~Degraded']_vars

\* After a 'ready' and a set that reached the backend, an 'error' or 'end'
\* has cleared the flag and a get has returned absent at once, the entry
\* still being there.
C32_Witness ==
  /\ Listening /\ readySeen /\ ~isConnected
  /\ redisQ = <<>>
  /\ \E p \in Procs :
       /\ procs[p].kind = "get" /\ procs[p].pc = "done" /\ procs[p].ret = Null
       /\ Live(procs[p].key)


MaxElapsed == 2   \* milliseconds a request is in flight

\* The middleware invocations whose response is not finalized yet.
Unanswered == {p \in Procs : procs[p].kind \in {"list", "item"}
                             /\ procs[p].pc \in {"get", "db", "dbDone"}}

\* The readiness probes under way.
Probing == {p \in Procs : procs[p].kind = "ready"
                          /\ procs[p].pc \in {"db", "dbDone", "probeSet", "probeDel"}}

\* A millisecond passes.
Elapse ==
  /\ Unanswered \cup Probing # {}
  /\ \A p \in Unanswered \cup Probing : procs[p].ms < MaxElapsed
  /\ procs' = [p \in Procs |->
       IF p \in Unanswered \cup Probing THEN [procs[p] EXCEPT !.ms = @ + 1] ELSE procs[p]]
  /\ UNCHANGED <<hist, now, isConnected, stats, cacheVars, dbVars, bootVars, started, readySeen>>

NextMs ==
  \/ DbConnectOk
  \/ CacheConnectOk
  \/ Elapse
  \/ \E p \in Procs :
       \/ started < MaxStarted /\ MwEnter(p, "list", "")
       \/ started < MaxStarted /\ MwEnter(p, "item", "1")
       \/ started < MaxStarted /\ ReadyStart(p, "ok")
       \/ \E ok \in BOOLEAN : MwGetReply(p, ok)
       \/ \E ok \in BOOLEAN : ReadDbExec(p, ok)
       \/ \E ok \in BOOLEAN : ReadyDbExec(p, ok)
       \/ \E ok \in BOOLEAN : ReadySetReply(p, ok, "ok")
       \/ \E ok \in BOOLEAN : ReadyDelReply(p, ok, "ok")
       \/ ReadResume(p)
       \/ ReadyDbResume(p, "ok")
       \/ Finish(p)
  \/ \E ok \in BOOLEAN : DetachedSetReply(ok)

SpecMs == Init /\ [][NextMs]_vars

\* The samples fed so far: one per middleware invocation that has entered
\* and is no longer unanswered.
SamplesFed == stats.totalRequests - Cardinality(Unanswered)

\* The invocations whose response this step finalizes.
Finalized == {p \in Unanswered : procs'[p].pc = "done"}

\* alpha * sample + (1 - alpha) * avg, in units of 1/AvgScale ms.
Smoothed(avg, rt) == (AlphaTenths * rt * AvgScale + (10 - AlphaTenths) * avg) \div 10

\* C34: a step that finalizes no middleware response leaves the average as
\* it is; a step that finalizes one, by a hit or through the handler, feeds
\* its response time once: the first sample of the process becomes the
\* average, every later one gives 0.1 * sample + 0.9 * average.
C34_AverageSmoothed ==
  [][/\ Finalized = {} => stats'.averageResponseTime = stats.averageResponseTime
     /\ \A p \in Finalized :
          stats'.averageResponseTime =
            IF SamplesFed = 0 THEN procs[p].ms * AvgScale
            ELSE Smoothed(stats.averageResponseTime, procs[p].ms)]_vars

\* Two responses are finalized, the first after 0 ms and the second after
\* 1 ms, and the average is 1 ms, not 0.1 ms.
C34_Witness ==
  /\ SamplesFed = 2
  /\ stats.averageResponseTime = AvgScale
  /\ \E p, q \in Procs :
       /\ procs[p].pc = "done" /\ procs[p].xrt /\ procs[p].ms = 0
       /\ procs[q].pc = "done" /\ procs[q].xrt /\ procs[q].ms = 1


\* C35: in a readiness response, the responseTime of the database check is
\* the time its query took, and the responseTime of the cache check is the
\* time from the start of the cache check (just before its set) to the
\* return of its del: the time of the store probe is not part of it.
C35_LatencyPerDependency ==
  \A p \in Procs :
    (ReadyDone(procs[p]) /\ procs[p].info.cache.status = "connected")
    => /\ procs[p].info.cache.responseTime = procs[p].ms - procs[p].probeAt
       /\ procs[p].info.database.status = "connected"
            => procs[p].info.database.responseTime = procs[p].probeAt

\* A readiness response whose store probe took 1 ms and whose cache probe
\* took 1 ms reports 1 ms for the database and 2 ms for the cache.
C35_Witness ==
  \E p \in Procs :
    /\ ReadyDone(procs[p])
    /\ procs[p].info.database = Timed(DbOkCheck, 1)
    /\ procs[p].info.cache = Timed(CacheOkCheck, 2)
    /\ procs[p].probeAt = 1 /\ procs[p].ms = 2
    /\ ~procs[p].fault


(***************************************************************************)
(* Coherence of the cache with the store (SpecTTL: the cache connected,   *)
(* no command failing).                                                    *)
(***************************************************************************)
\* The entry of key k holds what a read of the store would return now.
Fresh(k) ==
  IF k = NotesListKey THEN redisData[k].val = TableJson
  ELSE \E id \in ReqIds :
         /\ k = SingleNoteKey(id)
         /\ ValidId(id)
         /\ notes[IdNum(id)] # NoRow
         /\ redisData[k].val = Stringify(RowOf(notes, IdNum(id)))

\* C36: when every request has been answered and received and no command
\* is on its way to the cache, so that every read that started before the
\* last write's response has finished, the entries of the collection and
\* of the items hold what the store holds: none holds a value read before
\* a write that changed it.
C36_CoherentWhenQuiet ==
  (Quiet /\ redisQ = <<>>) => \A k \in DOMAIN redisData : Fresh(k)

\* Every request is over, note 1 has title b in the store, and the entry
\* of the collection, set after the update's invalidation, still holds
\* title a.
C36_Witness ==
  /\ Quiet /\ redisQ = <<>> /\ isConnected
  /\ notes[1] = "b"
  /\ NotesListKey \in DOMAIN redisData
  /\ redisData[NotesListKey].val = Stringify(Arr(<<Row(1, "a", DateV(1))>>))
  /\ lastSet[NotesListKey].live


(***************************************************************************)
(* The keys of the two middlewares (Spec).                                 *)
(***************************************************************************)
\* C37: two reads in flight have the same cache key exactly when they are
\* both reads of the collection or both reads of the same item identifier;
\* and a read answered from the cache gets a value of its own shape: a
\* read of the collection an array, a read of an item a row.
C37_KeysSeparateShapes ==
  /\ \A p, q \in Procs :
       (IsRead(procs[p]) /\ IsRead(procs[q]))
       => (procs[p].key = procs[q].key
             <=> (procs[p].kind = procs[q].kind /\ procs[p].id = procs[q].id))
  /\ \A p \in Procs :
       (IsRead(procs[p]) /\ procs[p].pc = "done" /\ procs[p].xcache = "HIT")
       => Tag(Parse(procs[p].body)) = (IF procs[p].kind = "list" THEN "arr" ELSE "row")

\* The read of the item with identifier list has been answered from the
\* cache, 200 and HIT, with the collection.
C37_Witness ==
  \E p \in Procs :
    /\ procs[p].kind = "item" /\ procs[p].id = "list"
    /\ procs[p].pc = "done" /\ procs[p].status = 200 /\ procs[p].xcache = "HIT"
    /\ ~procs[p].handler
    /\ procs[p].body = TableJson


(***************************************************************************)
(* SpecMw: the collection's middleware next to callers of cache.set that  *)
(* store values of their own under its key; the cache connects at         *)
(* startup.                                                                *)
(***************************************************************************)
MwValues == {Num(0), Bool(FALSE), Null, Str(""), Num(1), Str("a")}

NextMw ==
  \/ DbConnectOk
  \/ CacheConnectOk
  \/ \E p \in Procs :
       \/ started < MaxStarted /\ MwEnter(p, "list", "")
       \/ started < MaxStarted /\ \E v \in MwValues : CallSet(p, NotesListKey, v, DefaultTtl)
       \/ \E ok \in BOOLEAN : MwGetReply(p, ok)
       \/ \E ok \in BOOLEAN : SetReply(p, ok)
       \/ \E ok \in BOOLEAN : ReadDbExec(p, ok)
       \/ ReadResume(p)
       \/ Finish(p)
  \/ \E ok \in BOOLEAN : DetachedSetReply(ok)

SpecMw == Init /\ [][NextMw]_vars

StartupQueryOk == boot.phase = "db" /\ boot'.phase = "cache"

\* A store query of a request has failed and the request has not answered yet.
StoreFailing == \E q \in Procs : procs[q].pc = "dbDone" /\ procs[q].dbres = Thrown

\* C39: the store's connection flag is latched.  Only the resolution of a
\* startup query sets it, no step sets it back to false, the server listens
\* only with the flag true, and every answer of GET /health and every
\* database status gauge of GET /metrics reports the store as connected,
\* also in a step taken while a store query of a request has failed.
C39_StoreFlagLatched ==
  /\ [][(dbConnected => dbConnected')
        /\ (~dbConnected /\ dbConnected' => StartupQueryOk)]_vars
  /\ [](boot.phase \in {"listening", "closing", "quit"} => dbConnected)
  /\ [](\A p \in Procs :
          /\ procs[p].kind = "health" =>
                procs[p].status = 200 /\ procs[p].info.database = "connected"
          /\ procs[p].kind = "metrics" => procs[p].info.database = "1")

\* A store query of one request has failed, and in that state the health
\* endpoint has answered another request with the store connected.
C39_Witness ==
  \E p, q \in Procs :
    /\ procs[q].pc = "dbDone" /\ procs[q].dbres = Thrown
    /\ procs[p].kind = "health" /\ procs[p].pc = "done"
    /\ procs[p].info.database = "connected"
    /\ dbConnected


(***************************************************************************)
(* SpecShut: SpecLife, with the timer of gracefulShutdown firing once its *)
(* 10 seconds have passed: setTimeout(..., 10000) is armed in the turn    *)
(* that handles the signal and nothing clears it.  Nothing is assumed of  *)
(* the close of the HTTP server or of the reply to quit(): either may     *)
(* never come.                                                            *)
(***************************************************************************)
SpecShut == Init /\ [][NextLife]_vars /\ WF_vars(Startup) /\ WF_vars(ForceExit)

ShuttingDown == boot.phase \in {"closing", "quit"}

\* C40: shutdown always terminates.  Once the listening server has
\* received a signal the process eventually exits; the step that exits is
\* either on the graceful path, with the HTTP server closed, or the forced
\* exit with code 1, and until then the forced exit stays possible: no
\* pending request and no unanswered quit() holds it back.
C40_ShutdownTerminates ==
  /\ (ShuttingDown ~> boot.phase = "exited")
  /\ [][ShuttingDown /\ boot'.phase = "exited"
         => "http" \in boot'.closed \/ boot'.code = 1]_vars
  /\ [][ShuttingDown /\ boot'.phase = "exited" /\ "http" \notin boot'.closed
         => boot'.code = 1 /\ procs' = procs /\ redisQ' = redisQ]_vars

\* The forced exit, taken while a request is still unanswered and the HTTP
\* server therefore has not closed.
C40_Witness ==
  /\ boot.phase = "exited" /\ boot.code = 1
  /\ dbConnected
  /\ "http" \notin boot.closed
  /\ \E p \in Procs : procs[p].pc \notin {"idle", "done"}

\* The forced exit, taken after the HTTP server has closed and with quit()
\* still unanswered.
C40_WitnessQuitPending ==
  /\ boot.phase = "exited" /\ boot.code = 1
  /\ "http" \in boot.closed /\ "redis" \notin boot.closed
  /\ redisQ # <<>> /\ Head(redisQ).op = "QUIT"

=============================================================================
